---- MODULE Spec2Model ----
(***************************************************************************)
(* EventSphere admin dashboard: the authentication context (AuthProvider), *)
(* the static role -> permission table with hasRole / hasPermission, and   *)
(* the permission-gated page actions that issue backend mutations.         *)
(***************************************************************************)
EXTENDS Integers, Sequences, FiniteSets, TLC

VARIABLES
    user,        \* AuthProvider state: the current User, or NULL
    isLoading,   \* AuthProvider state: the loading flag
    error,       \* AuthProvider state: the shared error slot
    token,       \* client storage: the token entry held by tokenManager
    authUser,    \* client storage: the "auth_user" cached profile entry
    initPc,      \* position of the checkAuth run
    initLog,     \* what the checkAuth run has done so far, in order
    net,         \* network calls currently in flight
    loginPc,     \* position of the login call
    loginReturned, \* user carried by the last successful loginUser response
    loginThrown, \* last error login rethrew to its caller
    logoutPc,    \* position of the logout call
    logoutFailed, \* outcome of the backend call of the last logout
    flags,       \* permission flags of the mounted page, as last rendered
    page,        \* the mounted page: its route, its data, its action in flight
    probe,       \* inputs and results of the hasRole / hasPermission evaluation
    reg,         \* position and outcome of the signup and verifyEmail calls
    upd,         \* inputs and results of the updateUser state updater
    tm,          \* the token manager driven on its own: store, last results
    dash,        \* the dashboard summary and users list loads
    list,        \* a list screen: page number, filters, list requests
    files,       \* the FileUpload component: its props and selected files
    nav,         \* the sidebar: the user it renders for and its items
    form         \* the create-event form and the outcome of its submit

authVars == <<user, isLoading, error, token, authUser, initPc, initLog, net,
              loginPc, loginReturned, loginThrown, logoutPc, logoutFailed, flags>>
vars == <<user, isLoading, error, token, authUser, initPc, initLog, net,
          loginPc, loginReturned, loginThrown, logoutPc, logoutFailed, flags,
          page, probe, reg, upd, tm, dash, list, files, nav, form>>

----------------------------------------------------------------------------
(* Bounds *)

\* longest role list handed to hasRole / hasPermission
MaxRoles == 2

\* most status requests the users list has in flight at once
MaxToggles == 2

\* most token manager and API wrapper calls made in a row
MaxCalls == 4

\* most loads a summary screen starts while it is mounted
MaxLoads == 2

\* most list requests in flight at once on a list screen
MaxInFlight == 2

\* most files FileUpload holds, and most files of one selection or drop
MaxFiles == 3
MaxSelect == 2

----------------------------------------------------------------------------
(* Roles, permissions and the static table *)

ROLES == [ADMIN |-> "Admin", ORGANIZER |-> "Organizer",
          PARTICIPANT |-> "Participant", VISITOR |-> "Visitor"]

PERMISSIONS ==
    [CREATE_EVENT |-> "create_event", EDIT_EVENT |-> "edit_event",
     DELETE_EVENT |-> "delete_event", APPROVE_EVENT |-> "approve_event",
     PUBLISH_EVENT |-> "publish_event", VIEW_ALL_EVENTS |-> "view_all_events",
     MANAGE_USERS |-> "manage_users", VIEW_USERS |-> "view_users",
     UPDATE_USER_ROLES |-> "update_user_roles",
     ACTIVATE_DEACTIVATE_USERS |-> "activate_deactivate_users",
     MANAGE_REGISTRATIONS |-> "manage_registrations",
     MARK_ATTENDANCE |-> "mark_attendance",
     GENERATE_CERTIFICATES |-> "generate_certificates",
     SYSTEM_SETTINGS |-> "system_settings", VIEW_ANALYTICS |-> "view_analytics"]

AllPermissions == {PERMISSIONS[k] : k \in DOMAIN PERMISSIONS}

\* a table whose Organizer entry also lists approve_event
ROLE_PERMISSIONS_OrganizerApproves ==
    [r \in {ROLES.ADMIN, ROLES.ORGANIZER, ROLES.PARTICIPANT, ROLES.VISITOR} |->
        CASE r = ROLES.ADMIN ->
               <<PERMISSIONS.CREATE_EVENT, PERMISSIONS.EDIT_EVENT,
                 PERMISSIONS.DELETE_EVENT, PERMISSIONS.APPROVE_EVENT,
                 PERMISSIONS.PUBLISH_EVENT, PERMISSIONS.VIEW_ALL_EVENTS,
                 PERMISSIONS.MANAGE_USERS, PERMISSIONS.VIEW_USERS,
                 PERMISSIONS.UPDATE_USER_ROLES,
                 PERMISSIONS.ACTIVATE_DEACTIVATE_USERS,
                 PERMISSIONS.MANAGE_REGISTRATIONS, PERMISSIONS.MARK_ATTENDANCE,
                 PERMISSIONS.GENERATE_CERTIFICATES, PERMISSIONS.SYSTEM_SETTINGS,
                 PERMISSIONS.VIEW_ANALYTICS>>
          [] r = ROLES.ORGANIZER ->
               <<PERMISSIONS.CREATE_EVENT, PERMISSIONS.EDIT_EVENT,
                 PERMISSIONS.DELETE_EVENT, PERMISSIONS.APPROVE_EVENT,
                 PERMISSIONS.VIEW_ALL_EVENTS,
                 PERMISSIONS.MANAGE_REGISTRATIONS, PERMISSIONS.MARK_ATTENDANCE,
                 PERMISSIONS.GENERATE_CERTIFICATES>>
          [] OTHER -> <<>>]

\* own keys of the ROLE_PERMISSIONS object literal and their arrays
ROLE_PERMISSIONS ==
    [r \in {ROLES.ADMIN, ROLES.ORGANIZER, ROLES.PARTICIPANT, ROLES.VISITOR} |->
        CASE r = ROLES.ADMIN ->
               <<PERMISSIONS.CREATE_EVENT, PERMISSIONS.EDIT_EVENT,
                 PERMISSIONS.DELETE_EVENT, PERMISSIONS.APPROVE_EVENT,
                 PERMISSIONS.PUBLISH_EVENT, PERMISSIONS.VIEW_ALL_EVENTS,
                 PERMISSIONS.MANAGE_USERS, PERMISSIONS.VIEW_USERS,
                 PERMISSIONS.UPDATE_USER_ROLES,
                 PERMISSIONS.ACTIVATE_DEACTIVATE_USERS,
                 PERMISSIONS.MANAGE_REGISTRATIONS, PERMISSIONS.MARK_ATTENDANCE,
                 PERMISSIONS.GENERATE_CERTIFICATES, PERMISSIONS.SYSTEM_SETTINGS,
                 PERMISSIONS.VIEW_ANALYTICS>>
          [] r = ROLES.ORGANIZER ->
               <<PERMISSIONS.CREATE_EVENT, PERMISSIONS.EDIT_EVENT,
                 PERMISSIONS.DELETE_EVENT, PERMISSIONS.VIEW_ALL_EVENTS,
                 PERMISSIONS.MANAGE_REGISTRATIONS, PERMISSIONS.MARK_ATTENDANCE,
                 PERMISSIONS.GENERATE_CERTIFICATES>>
          [] OTHER -> <<>>]

\* Property names every object literal inherits from Object.prototype: the
\* table is declared as a plain object literal, so ROLE_PERMISSIONS[role]
\* finds these too, and the value found is not an array.
ObjectPrototypeKeys == {"constructor", "toString"}

\* role labels the evaluation is tried on: the four table keys, a label the
\* table does not know, and a label that names an inherited property
RoleLabels == {ROLES.ADMIN, ROLES.ORGANIZER, ROLES.PARTICIPANT, ROLES.VISITOR,
               "Guest", "constructor"}

\* permissions the evaluation is tried on: every defined one and an unknown one
ProbePermissions == AllPermissions \cup {"fly"}

RECURSIVE SeqsUpTo(_, _)
SeqsUpTo(S, n) ==
    IF n = 0 THEN {<<>>}
    ELSE LET shorter == SeqsUpTo(S, n - 1)
         IN  shorter \cup {Append(s, x) : s \in shorter, x \in S}

RoleLists == SeqsUpTo(RoleLabels, MaxRoles)

\* Array.prototype.includes
Includes(arr, x) == \E i \in 1..Len(arr) : arr[i] = x

\* ROLE_PERMISSIONS[role]: an own array, an inherited non-array value, or
\* undefined
TableLookup(role) ==
    IF role \in DOMAIN ROLE_PERMISSIONS
    THEN [kind |-> "array", arr |-> ROLE_PERMISSIONS[role]]
    ELSE IF role \in ObjectPrototypeKeys
         THEN [kind |-> "inherited", arr |-> <<>>]
         ELSE [kind |-> "undefined", arr |-> <<>>]

hasRole(userRoles, requiredRole) == Includes(userRoles, requiredRole)

\* userRoles.some(callback) from index i on.  The result says whether the
\* call threw (rolePermissions.includes is not a function) and, when it did
\* not, the boolean returned.
RECURSIVE SomeRoleGrants(_, _, _)
SomeRoleGrants(userRoles, permission, i) ==
    IF i > Len(userRoles) THEN [threw |-> FALSE, value |-> FALSE]
    ELSE LET rolePermissions == TableLookup(userRoles[i])
         IN  IF rolePermissions.kind = "inherited"
             THEN [threw |-> TRUE, value |-> FALSE]
             ELSE IF rolePermissions.kind = "array"
                     /\ Includes(rolePermissions.arr, permission)
                  THEN [threw |-> FALSE, value |-> TRUE]
                  ELSE SomeRoleGrants(userRoles, permission, i + 1)

\* userRoles.every(...) in place of userRoles.some(...)
hasPermissionEvery(userRoles, permission) ==
    [threw |-> FALSE,
     value |-> \A i \in 1..Len(userRoles) :
                  /\ TableLookup(userRoles[i]).kind = "array"
                  /\ Includes(TableLookup(userRoles[i]).arr, permission)]

hasPermission(userRoles, permission) == SomeRoleGrants(userRoles, permission, 1)

\* the call returned true
Granted(r) == ~r.threw /\ r.value

\* the union of the table entries of the roles of R that have an entry
PermissionUnion(R) ==
    UNION {{ROLE_PERMISSIONS[R[i]][j] : j \in 1..Len(ROLE_PERMISSIONS[R[i]])} :
           i \in {k \in 1..Len(R) : R[k] \in DOMAIN ROLE_PERMISSIONS}}

----------------------------------------------------------------------------
(* Users *)

NULL == [id |-> 0, roles |-> <<>>, active |-> FALSE]

\* user?.roles || []
RolesOf(u) == IF u = NULL THEN <<>> ELSE u.roles


BackendUsers == {[id |-> 1, roles |-> <<ROLES.ADMIN>>, active |-> TRUE],
                 [id |-> 2, roles |-> <<ROLES.ORGANIZER>>, active |-> TRUE]}

\* Partial<User> values handed to updateUser
Partials == {[roles |-> <<ROLES.ORGANIZER, ROLES.ADMIN>>],
             [roles |-> <<"Guest">>],
             [active |-> FALSE]}

\* a merge in which the fields of prev win over those of partial
MergePrevWins(prev, partial) ==
    [f \in DOMAIN prev |-> prev[f]]

\* { ...prev, ...partial }
Merge(prev, partial) ==
    [f \in DOMAIN prev |-> IF f \in DOMAIN partial THEN partial[f] ELSE prev[f]]

----------------------------------------------------------------------------
(* Client storage and the API layer *)

NoToken == ""
StoredToken == "tok0"
LoginToken == "tokL"
RefreshedToken == "tokR"

NoEntry == [kind |-> "none", user |-> NULL]
CorruptEntry == [kind |-> "corrupt", user |-> NULL]

\* JSON.stringify(user), as kept under "auth_user"
Stringify(u) == [kind |-> "json", user |-> u]

\* tokenManager.get()
tokenManagerGet == token

\* a remove() that stores a token when none is stored
tokenManagerRemoveToggle == IF token = NoToken THEN StoredToken ELSE NoToken

\* what tokenManager.remove() leaves in the token entry
tokenManagerRemove == NoToken

\* a set(t) that keeps a token already stored
tokenManagerSetOnce(t) == IF token = NoToken THEN t ELSE token

\* tokenManager.set(t): the token entry afterwards
tokenManagerSet(t) == t

NoHeader == [kind |-> "none", token |-> NoToken]

\* tokenManager.getAuthHeader(): the bearer header of the stored token, or
\* no header when none is stored
tokenManagerGetAuthHeader ==
    IF token = NoToken THEN NoHeader ELSE [kind |-> "bearer", token |-> token]

\* errors the API layer throws: an ApiError carrying the backend's message,
\* or a transport error that is not an ApiError
Failures == {[isApiError |-> TRUE, message |-> "Invalid credentials"],
             [isApiError |-> FALSE, message |-> "Failed to fetch"]}

NoThrow == [isApiError |-> FALSE, message |-> "null"]

NoError == "null"

\* err instanceof ApiError ? err.message : fallback
ErrorMessage(err, fallback) == IF err.isApiError THEN err.message ELSE fallback

----------------------------------------------------------------------------
(* Pages: the permission flags computed while rendering *)

GatedPermissions ==
    {PERMISSIONS.CREATE_EVENT, PERMISSIONS.EDIT_EVENT, PERMISSIONS.DELETE_EVENT,
     PERMISSIONS.APPROVE_EVENT, PERMISSIONS.PUBLISH_EVENT,
     PERMISSIONS.MANAGE_USERS, PERMISSIONS.UPDATE_USER_ROLES,
     PERMISSIONS.ACTIVATE_DEACTIVATE_USERS}

\* the flags memoized on the user's id: a role change of the same user
\* leaves them as they were
PageFlagsMemo(u) ==
    IF u # NULL /\ user # NULL /\ u.id = user.id
    THEN flags
    ELSE [p \in GatedPermissions |-> Granted(hasPermission(RolesOf(u), p))]

\* const canX = hasPermission(user?.roles || [], PERMISSIONS.X), evaluated in
\* the component body on every render
PageFlags(u) == [p \in GatedPermissions |-> Granted(hasPermission(RolesOf(u), p))]

\* setUser(u): the state update and the render it triggers
SetUser(u) == /\ user' = u
              /\ flags' = PageFlags(u)

----------------------------------------------------------------------------
(* AuthProvider: checkAuth *)

InitCalls == {"init.validate", "init.validate2", "init.refresh"}

\* a finally block that forgets the loading flag
checkAuthFinallyKeepLoading(events) ==
    /\ isLoading' = isLoading
    /\ initLog' = initLog \o events
    /\ initPc' = "done"

\* finally { setIsLoading(false) }
checkAuthFinally(events) ==
    /\ isLoading' = FALSE
    /\ initLog' = initLog \o events \o <<"loading.false">>
    /\ initPc' = "done"

\* no stored token: nothing but the finally block runs
checkAuthNoToken ==
    /\ initPc = "start"
    /\ tokenManagerGet = NoToken
    /\ checkAuthFinally(<<>>)
    /\ UNCHANGED <<user, flags, error, token, authUser, net, loginPc,
                   loginReturned, loginThrown, logoutPc, logoutFailed,
                   page, probe,
                   reg, upd, tm, dash,
                   list, files, nav, form>>

\* validateToken and refreshAccessToken issued together
checkAuthBeginParallel ==
    /\ initPc = "start"
    /\ tokenManagerGet # NoToken
    /\ UNCHANGED <<user, flags, isLoading>>
    /\ initLog' = <<"validate.issue", "refresh.issue">>
    /\ net' = net \cup {"init.validate", "init.refresh"}
    /\ initPc' = "validate1"
    /\ UNCHANGED <<error, token, authUser, loginPc, loginReturned,
                   loginThrown, logoutPc, logoutFailed, page, probe,
                   reg, upd, tm, dash,
                   list, files, nav, form>>

\* a stored token: hydrate from the cached profile, then issue validateToken
checkAuthBegin ==
    /\ initPc = "start"
    /\ tokenManagerGet # NoToken
    /\ IF authUser.kind = "json"
       THEN /\ SetUser(authUser.user)
            /\ isLoading' = FALSE
            /\ initLog' = <<"hydrate", "loading.false", "validate.issue">>
       ELSE \* no entry, or JSON.parse threw and the error was swallowed
            /\ UNCHANGED <<user, flags, isLoading>>
            /\ initLog' = <<"validate.issue">>
    /\ net' = net \cup {"init.validate"}
    /\ initPc' = "validate1"
    /\ UNCHANGED <<error, token, authUser, loginPc, loginReturned,
                   loginThrown, logoutPc, logoutFailed, page, probe,
                   reg, upd, tm, dash,
                   list, files, nav, form>>

\* validateToken returned a user
checkAuthValid ==
    /\ initPc = "validate1"
    /\ \E userData \in BackendUsers : SetUser(userData)
    /\ net' = net \ {"init.validate"}
    /\ checkAuthFinally(<<"validate.user">>)
    /\ UNCHANGED <<error, token, authUser, loginPc, loginReturned,
                   loginThrown, logoutPc, logoutFailed, page, probe,
                   reg, upd, tm, dash,
                   list, files, nav, form>>

\* validateToken returned no user: issue refreshAccessToken
checkAuthInvalid ==
    /\ initPc = "validate1"
    /\ net' = (net \ {"init.validate"}) \cup {"init.refresh"}
    /\ initLog' = initLog \o <<"validate.null", "refresh.issue">>
    /\ initPc' = "refresh"
    /\ UNCHANGED <<user, flags, isLoading, error, token, authUser, loginPc,
                   loginReturned, loginThrown, logoutPc, logoutFailed,
                   page, probe,
                   reg, upd, tm, dash,
                   list, files, nav, form>>

\* validateToken threw: the inner catch clears the token and the user
checkAuthValidateThrew ==
    /\ initPc = "validate1"
    /\ net' = net \ {"init.validate"}
    /\ token' = tokenManagerRemove
    /\ SetUser(NULL)
    /\ checkAuthFinally(<<"validate.throw">>)
    /\ UNCHANGED <<error, authUser, loginPc, loginReturned, loginThrown,
                   logoutPc, logoutFailed, page, probe,
                   reg, upd, tm, dash,
                   list, files, nav, form>>

\* refreshAccessToken returned and a token is in storage: validate it
checkAuthRefreshed ==
    /\ initPc = "refresh"
    /\ token' = RefreshedToken
    /\ net' = (net \ {"init.refresh"}) \cup {"init.validate2"}
    /\ initLog' = initLog \o <<"refresh.return", "validate2.issue">>
    /\ initPc' = "validate2"
    /\ UNCHANGED <<user, flags, isLoading, error, authUser, loginPc,
                   loginReturned, loginThrown, logoutPc, logoutFailed,
                   page, probe,
                   reg, upd, tm, dash,
                   list, files, nav, form>>

\* refreshAccessToken returned and tokenManager.get() finds no token: the
\* if (newToken) block is skipped and only the finally block runs
checkAuthRefreshNoToken ==
    /\ initPc = "refresh"
    /\ token' = NoToken
    /\ net' = net \ {"init.refresh"}
    /\ checkAuthFinally(<<"refresh.return">>)
    /\ UNCHANGED <<user, flags, error, authUser, loginPc, loginReturned,
                   loginThrown, logoutPc, logoutFailed, page, probe,
                   reg, upd, tm, dash,
                   list, files, nav, form>>

\* refreshAccessToken threw: the inner catch clears the token and the user
checkAuthRefreshThrew ==
    /\ initPc = "refresh"
    /\ net' = net \ {"init.refresh"}
    /\ token' = tokenManagerRemove
    /\ SetUser(NULL)
    /\ checkAuthFinally(<<"refresh.throw">>)
    /\ UNCHANGED <<error, authUser, loginPc, loginReturned, loginThrown,
                   logoutPc, logoutFailed, page, probe,
                   reg, upd, tm, dash,
                   list, files, nav, form>>

\* the second validateToken returned a user
checkAuthRevalid ==
    /\ initPc = "validate2"
    /\ \E refreshedUserData \in BackendUsers : SetUser(refreshedUserData)
    /\ net' = net \ {"init.validate2"}
    /\ checkAuthFinally(<<"validate2.user">>)
    /\ UNCHANGED <<error, token, authUser, loginPc, loginReturned,
                   loginThrown, logoutPc, logoutFailed, page, probe,
                   reg, upd, tm, dash,
                   list, files, nav, form>>

\* a failed second validation that tries the refresh once more
checkAuthRevalidFailedRetry ==
    /\ initPc = "validate2"
    /\ Len(initLog) < 12
    /\ net' = (net \ {"init.validate2"}) \cup {"init.refresh"}
    /\ initLog' = initLog \o <<"validate2.null", "refresh.issue">>
    /\ initPc' = "refresh"
    /\ UNCHANGED <<user, flags, isLoading, error, token, authUser, loginPc,
                   loginReturned, loginThrown, logoutPc, logoutFailed,
                   page, probe,
                   reg, upd, tm, dash,
                   list, files, nav, form>>

\* the second validateToken returned no user, or threw
checkAuthRevalidFailed ==
    /\ initPc = "validate2"
    /\ net' = net \ {"init.validate2"}
    /\ token' = tokenManagerRemove
    /\ SetUser(NULL)
    /\ \E how \in {"validate2.null", "validate2.throw"} :
           checkAuthFinally(<<how>>)
    /\ UNCHANGED <<error, authUser, loginPc, loginReturned, loginThrown,
                   logoutPc, logoutFailed, page, probe,
                   reg, upd, tm, dash,
                   list, files, nav, form>>


----------------------------------------------------------------------------
(* AuthProvider: login, logout, updateUser, clearError *)

\* a login that does not reset the error slot
loginStartKeepError ==
    /\ loginPc # "await"
    /\ isLoading' = TRUE
    /\ net' = net \cup {"login"}
    /\ loginPc' = "await"
    /\ UNCHANGED <<user, flags, error, token, authUser, initPc, initLog,
                   loginReturned, loginThrown, logoutPc, logoutFailed,
                   page, probe,
                   reg, upd, tm, dash,
                   list, files, nav, form>>

\* try { setError(null); setIsLoading(true); await loginUser(...)
loginStart ==
    /\ loginPc # "await"
    /\ error' = NoError
    /\ isLoading' = TRUE
    /\ net' = net \cup {"login"}
    /\ loginPc' = "await"
    /\ UNCHANGED <<user, flags, token, authUser, initPc, initLog,
                   loginReturned, loginThrown, logoutPc, logoutFailed,
                   page, probe,
                   reg, upd, tm, dash,
                   list, files, nav, form>>

\* loginUser resolved (the API layer has stored the new token):
\* setUser(userData), then finally { setIsLoading(false) }
loginSucceeded ==
    /\ loginPc = "await"
    /\ \E userData \in BackendUsers :
          /\ loginReturned' = userData
          /\ SetUser(userData)
    /\ token' = LoginToken
    /\ isLoading' = FALSE
    /\ net' = net \ {"login"}
    /\ loginPc' = "resolved"
    /\ UNCHANGED <<error, authUser, initPc, initLog, loginThrown, logoutPc,
                   logoutFailed, page, probe,
                   reg, upd, tm, dash,
                   list, files, nav, form>>

\* loginUser rejected: setError(errorMessage); throw err; finally
loginFailed ==
    /\ loginPc = "await"
    /\ \E err \in Failures :
          /\ error' = ErrorMessage(err, "Login failed")
          /\ loginThrown' = err
    /\ isLoading' = FALSE
    /\ net' = net \ {"login"}
    /\ loginPc' = "rejected"
    /\ UNCHANGED <<user, flags, token, authUser, initPc, initLog,
                   loginReturned, logoutPc, logoutFailed, page, probe,
                   reg, upd, tm, dash,
                   list, files, nav, form>>

\* try { setIsLoading(true); await logoutUser()
logoutStart ==
    /\ logoutPc # "await"
    /\ isLoading' = TRUE
    /\ net' = net \cup {"logout"}
    /\ logoutPc' = "await"
    /\ UNCHANGED <<user, flags, error, token, authUser, initPc, initLog,
                   loginPc, loginReturned, loginThrown, logoutFailed,
                   page, probe,
                   reg, upd, tm, dash,
                   list, files, nav, form>>

\* what logoutUser leaves in client storage, whatever the backend answered
logoutUserStorage ==
    /\ token' = NoToken
    /\ authUser' = NoEntry

\* logoutUser resolved: setUser(null), then finally { setIsLoading(false) }
logoutSucceeded ==
    /\ logoutPc = "await"
    /\ logoutUserStorage
    /\ SetUser(NULL)
    /\ isLoading' = FALSE
    /\ net' = net \ {"logout"}
    /\ logoutPc' = "done"
    /\ logoutFailed' = FALSE
    /\ UNCHANGED <<error, initPc, initLog, loginPc, loginReturned,
                   loginThrown, page, probe,
                   reg, upd, tm, dash,
                   list, files, nav, form>>

\* a rejected logoutUser after which no finally block runs
logoutRejectedKeepsLoading ==
    /\ logoutPc = "await"
    /\ logoutUserStorage
    /\ net' = net \ {"logout"}
    /\ logoutPc' = "done"
    /\ logoutFailed' = TRUE
    /\ UNCHANGED <<user, flags, isLoading, error, initPc, initLog, loginPc,
                   loginReturned, loginThrown, page, probe,
                   reg, upd, tm, dash,
                   list, files, nav, form>>

\* logoutUser rejected: control leaves the try block before setUser(null);
\* the catch block logs, the finally block clears the loading flag
logoutRejected ==
    /\ logoutPc = "await"
    /\ logoutUserStorage
    /\ isLoading' = FALSE
    /\ net' = net \ {"logout"}
    /\ logoutPc' = "done"
    /\ logoutFailed' = TRUE
    /\ UNCHANGED <<user, flags, error, initPc, initLog, loginPc,
                   loginReturned, loginThrown, page, probe,
                   reg, upd, tm, dash,
                   list, files, nav, form>>

\* the updater handed to setUser: if (!prev) return prev; else the merge
updateUserNext(prev, partial) ==
    IF prev = NULL THEN prev ELSE Merge(prev, partial)

\* "auth_user" once the updater has run: written only when prev is set
updateUserCache(prev, cache, partial) ==
    IF prev = NULL THEN cache ELSE Stringify(Merge(prev, partial))

\* setUser(prev => prev ? { ...prev, ...partial } : prev), the merged record
\* also written to "auth_user"
updateUser ==
    /\ \E partial \in Partials :
          /\ authUser' = updateUserCache(user, authUser, partial)
          /\ SetUser(updateUserNext(user, partial))
    /\ UNCHANGED <<isLoading, error, token, initPc, initLog, net, loginPc,
                   loginReturned, loginThrown, logoutPc, logoutFailed,
                   page, probe,
                   reg, upd, tm, dash,
                   list, files, nav, form>>

clearError ==
    /\ error' = NoError
    /\ UNCHANGED <<user, flags, isLoading, token, authUser, initPc, initLog,
                   net, loginPc, loginReturned, loginThrown, logoutPc,
                   logoutFailed, page, probe,
                   reg, upd, tm, dash,
                   list, files, nav, form>>


----------------------------------------------------------------------------
(* Pages: handlers that issue backend mutations *)

MutationKinds == {"create_event", "update_event", "approve_event",
                  "decline_event", "publish_event", "delete_event",
                  "user_status"}

\* the permission whose flag gates the control that issues the mutation
RequiredPermission(kind) ==
    CASE kind = "create_event" -> PERMISSIONS.CREATE_EVENT
      [] kind = "update_event" -> PERMISSIONS.EDIT_EVENT
      [] kind = "approve_event" -> PERMISSIONS.APPROVE_EVENT
      [] kind = "decline_event" -> PERMISSIONS.APPROVE_EVENT
      [] kind = "publish_event" -> PERMISSIONS.PUBLISH_EVENT
      [] kind = "delete_event" -> PERMISSIONS.DELETE_EVENT
      [] OTHER -> PERMISSIONS.ACTIVATE_DEACTIVATE_USERS

Routes == {"events", "eventDetails", "createEvent", "editEvent", "users",
           "userDetails"}

\* a page as mounted: nothing in flight; the event details page holds the
\* event it loaded
FreshPage(route, status, published) ==
    [route |-> route,
     status |-> IF route = "eventDetails" THEN status ELSE "n/a",
     is_published |-> IF route = "eventDetails" THEN published ELSE FALSE,
     busy |-> FALSE, pending |-> "none", toggles |-> 0,
     outcome |-> "none", toast |-> "none"]

\* the router mounts a page; what an unmounted page had in flight is dropped
navigate ==
    /\ \E route \in Routes, status \in {"pending", "approved", "cancelled"},
          published \in BOOLEAN :
          /\ published => status = "approved"
          /\ page' = FreshPage(route, status, published)
    /\ page' # page
    /\ UNCHANGED authVars
    /\ UNCHANGED <<probe, reg, upd, tm, dash,
                   list, files, nav, form>>

\* the start of a guarded page action: the busy flag is set (actionLoading,
\* loading or saving) and the API call is made
StartAction(kind) ==
    /\ page' = [page EXCEPT !.busy = TRUE, !.pending = kind]
    /\ UNCHANGED authVars
    /\ UNCHANGED <<probe, reg, upd, tm, dash,
                   list, files, nav, form>>

\* the event details page shows its action buttons, none of them disabled
EventShown ==
    /\ page.route = "eventDetails"
    /\ page.status \in {"pending", "approved", "cancelled"}
    /\ ~page.busy

\* Approve button: canApproveEvent && event.status === "pending"
handleApproveEvent ==
    /\ EventShown
    /\ flags[PERMISSIONS.APPROVE_EVENT]
    /\ page.status = "pending"
    /\ StartAction("approve_event")

\* Decline button, same condition; the confirm() dialog was accepted
handleDeclineEvent ==
    /\ EventShown
    /\ flags[PERMISSIONS.APPROVE_EVENT]
    /\ page.status = "pending"
    /\ StartAction("decline_event")

\* a Publish / Unpublish button shown whatever the status of the event
handlePublishToggleAnyStatus ==
    /\ EventShown
    /\ flags[PERMISSIONS.PUBLISH_EVENT]
    /\ StartAction("publish_event")

\* Publish / Unpublish button: canPublishEvent && event.status === "approved"
handlePublishToggle ==
    /\ EventShown
    /\ flags[PERMISSIONS.PUBLISH_EVENT]
    /\ page.status = "approved"
    /\ StartAction("publish_event")

\* a Delete button rendered without its canDeleteEvent condition
handleDeleteEventUngated ==
    /\ EventShown
    /\ StartAction("delete_event")

\* Delete button: canDeleteEvent; the confirm() dialog was accepted
handleDeleteEvent ==
    /\ EventShown
    /\ flags[PERMISSIONS.DELETE_EVENT]
    /\ StartAction("delete_event")

\* create page: the form is rendered only with canCreateEvent; the submit
\* passed the checks and calls createEventWithFiles
createEventSubmit ==
    /\ page.route = "createEvent" /\ ~page.busy
    /\ flags[PERMISSIONS.CREATE_EVENT]
    /\ StartAction("create_event")

\* edit page: the form is rendered only with canEditEvent
editEventSubmit ==
    /\ page.route = "editEvent" /\ ~page.busy
    /\ flags[PERMISSIONS.EDIT_EVENT]
    /\ StartAction("update_event")

\* user details: the button is rendered only with canActivateDeactivateUsers
userDetailsStatusToggle ==
    /\ page.route = "userDetails" /\ ~page.busy
    /\ flags[PERMISSIONS.ACTIVATE_DEACTIVATE_USERS]
    /\ StartAction("user_status")

\* the API call of the action in flight resolved
actionSucceeded ==
    /\ page.pending # "none"
    /\ IF page.pending \in {"delete_event", "create_event"}
       THEN \* showToast.success(...); router.push("/events")
            page' = [FreshPage("events", "n/a", FALSE) EXCEPT
                       !.outcome = "resolved", !.toast = "success"]
       ELSE page' = [page EXCEPT
                       !.status = CASE page.pending = "approve_event" -> "approved"
                                    [] page.pending = "decline_event" -> "cancelled"
                                    [] OTHER -> @,
                       !.is_published = IF page.pending = "publish_event"
                                        THEN ~@ ELSE @,
                       !.busy = FALSE,
                       !.pending = "none",
                       !.outcome = "resolved",
                       !.toast = "success"]
    /\ UNCHANGED authVars
    /\ UNCHANGED <<probe, reg, upd, tm, dash,
                   list, files, nav, form>>

\* the API call rejected after the page had already shown its effect
actionFailedOptimistic ==
    /\ page.pending # "none"
    /\ page' = [page EXCEPT
                  !.status = CASE page.pending = "approve_event" -> "approved"
                               [] page.pending = "decline_event" -> "cancelled"
                               [] OTHER -> @,
                  !.is_published = IF page.pending = "publish_event"
                                   THEN ~@ ELSE @,
                  !.busy = FALSE,
                  !.pending = "none",
                  !.outcome = "rejected",
                  !.toast = "error"]
    /\ UNCHANGED authVars
    /\ UNCHANGED <<probe, reg, upd, tm, dash,
                   list, files, nav, form>>

\* the API call of the action in flight rejected: control leaves the try
\* block before setEvent; catch shows the error toast, finally clears the flag
actionFailed ==
    /\ page.pending # "none"
    /\ page' = [page EXCEPT !.busy = FALSE, !.pending = "none",
                            !.outcome = "rejected", !.toast = "error"]
    /\ UNCHANGED authVars
    /\ UNCHANGED <<probe, reg, upd, tm, dash,
                   list, files, nav, form>>

\* users list: rendered only with canManageUsers, the toggle button only
\* with canActivateDeactivateUsers and never disabled
usersPageStatusToggle ==
    /\ page.route = "users"
    /\ page.toggles < MaxToggles
    /\ flags[PERMISSIONS.MANAGE_USERS]
    /\ flags[PERMISSIONS.ACTIVATE_DEACTIVATE_USERS]
    /\ page' = [page EXCEPT !.toggles = @ + 1]
    /\ UNCHANGED authVars
    /\ UNCHANGED <<probe, reg, upd, tm, dash,
                   list, files, nav, form>>

\* updateUserStatus of the users list settled, either way
usersPageStatusSettled ==
    /\ page.route = "users"
    /\ page.toggles > 0
    /\ page' = [page EXCEPT !.toggles = @ - 1]
    /\ UNCHANGED authVars
    /\ UNCHANGED <<probe, reg, upd, tm, dash,
                   list, files, nav, form>>

----------------------------------------------------------------------------
(* Evaluation of hasRole / hasPermission on drawn inputs *)

NoProbe == [u |-> NULL, perm |-> "fly", role |-> "Guest", stage |-> "off",
            permRes |-> [threw |-> FALSE, value |-> FALSE],
            roleRes |-> FALSE, flagRes |-> {}]

ProbeUsers == {NULL} \cup {[id |-> 1, roles |-> R, active |-> TRUE] : R \in RoleLists}

probeHasRole ==
    /\ probe.stage = "input"
    /\ probe' = [probe EXCEPT !.stage = "role",
                              !.roleRes = hasRole(RolesOf(probe.u), probe.role)]
    /\ UNCHANGED <<authVars, page, reg, upd, tm, dash,
                   list, files, nav, form>>

probeHasPermission ==
    /\ probe.stage = "role"
    /\ probe' = [probe EXCEPT !.stage = "perm",
                   !.permRes = hasPermission(RolesOf(probe.u), probe.perm)]
    /\ UNCHANGED <<authVars, page, reg, upd, tm, dash,
                   list, files, nav, form>>

probePageFlags ==
    /\ probe.stage = "perm"
    /\ probe' = [probe EXCEPT !.stage = "flags",
                   !.flagRes = {p \in GatedPermissions : PageFlags(probe.u)[p]}]
    /\ UNCHANGED <<authVars, page, reg, upd, tm, dash,
                   list, files, nav, form>>

----------------------------------------------------------------------------
(* AuthProvider: signup and verifyEmail *)

NoRegistration == "none"

\* registration identifiers signupUser resolves with
RegistrationIds == {"reg1"}

\* token the API layer stores when verifyEmail succeeds
VerifyToken == "tokV"

SignupFailures == {[isApiError |-> TRUE, message |-> "Email already registered"],
                   [isApiError |-> FALSE, message |-> "Failed to fetch"]}

VerifyFailures == {[isApiError |-> TRUE, message |-> "Invalid or expired code"],
                   [isApiError |-> FALSE, message |-> "Failed to fetch"]}

IdleReg == [signupPc |-> "idle", signupReturned |-> NoRegistration,
            signupThrown |-> NoThrow,
            verifyPc |-> "idle", verifyReturned |-> NULL,
            verifyThrown |-> NoThrow]

\* try { setError(null); setIsLoading(true); await signupUser(userData)
signupStart ==
    /\ reg.signupPc # "await"
    /\ error' = NoError
    /\ isLoading' = TRUE
    /\ net' = net \cup {"signup"}
    /\ reg' = [reg EXCEPT !.signupPc = "await"]
    /\ UNCHANGED <<user, flags, token, authUser, initPc, initLog, loginPc,
                   loginReturned, loginThrown, logoutPc, logoutFailed,
                   page, probe, upd, tm, dash,
                   list, files, nav, form>>

\* signupUser resolved and the User is replaced by a record of that response
signupSucceededSetsUser ==
    /\ reg.signupPc = "await"
    /\ \E regId \in RegistrationIds :
          reg' = [reg EXCEPT !.signupPc = "resolved", !.signupReturned = regId]
    /\ \E userData \in BackendUsers : SetUser(userData)
    /\ isLoading' = FALSE
    /\ net' = net \ {"signup"}
    /\ UNCHANGED <<error, token, authUser, initPc, initLog, loginPc,
                   loginReturned, loginThrown, logoutPc, logoutFailed,
                   page, probe, upd, tm, dash,
                   list, files, nav, form>>

\* signupUser resolved: return regId; finally { setIsLoading(false) }
signupSucceeded ==
    /\ reg.signupPc = "await"
    /\ \E regId \in RegistrationIds :
          reg' = [reg EXCEPT !.signupPc = "resolved", !.signupReturned = regId]
    /\ isLoading' = FALSE
    /\ net' = net \ {"signup"}
    /\ UNCHANGED <<user, flags, error, token, authUser, initPc, initLog,
                   loginPc, loginReturned, loginThrown, logoutPc, logoutFailed,
                   page, probe, upd, tm, dash,
                   list, files, nav, form>>

\* signupUser rejected: setError(errorMessage); throw err; finally
signupFailed ==
    /\ reg.signupPc = "await"
    /\ \E err \in SignupFailures :
          /\ error' = ErrorMessage(err, "Signup failed")
          /\ reg' = [reg EXCEPT !.signupPc = "rejected", !.signupThrown = err]
    /\ isLoading' = FALSE
    /\ net' = net \ {"signup"}
    /\ UNCHANGED <<user, flags, token, authUser, initPc, initLog, loginPc,
                   loginReturned, loginThrown, logoutPc, logoutFailed,
                   page, probe, upd, tm, dash,
                   list, files, nav, form>>

\* try { setError(null); setIsLoading(true); await verifyEmailApi(code, regId)
verifyEmailStart ==
    /\ reg.verifyPc # "await"
    /\ error' = NoError
    /\ isLoading' = TRUE
    /\ net' = net \cup {"verifyEmail"}
    /\ reg' = [reg EXCEPT !.verifyPc = "await"]
    /\ UNCHANGED <<user, flags, token, authUser, initPc, initLog, loginPc,
                   loginReturned, loginThrown, logoutPc, logoutFailed,
                   page, probe, upd, tm, dash,
                   list, files, nav, form>>

\* verifyEmailApi resolved and the returned user is dropped
verifyEmailSucceededKeepsUser ==
    /\ reg.verifyPc = "await"
    /\ \E userData \in BackendUsers :
          reg' = [reg EXCEPT !.verifyPc = "resolved",
                             !.verifyReturned = userData]
    /\ token' = VerifyToken
    /\ isLoading' = FALSE
    /\ net' = net \ {"verifyEmail"}
    /\ UNCHANGED <<user, flags, error, authUser, initPc, initLog, loginPc,
                   loginReturned, loginThrown, logoutPc, logoutFailed,
                   page, probe, upd, tm, dash,
                   list, files, nav, form>>

\* verifyEmailApi resolved (the API layer has stored the session token):
\* setUser(userData); finally { setIsLoading(false) }
verifyEmailSucceeded ==
    /\ reg.verifyPc = "await"
    /\ \E userData \in BackendUsers :
          /\ reg' = [reg EXCEPT !.verifyPc = "resolved",
                                !.verifyReturned = userData]
          /\ SetUser(userData)
    /\ token' = VerifyToken
    /\ isLoading' = FALSE
    /\ net' = net \ {"verifyEmail"}
    /\ UNCHANGED <<error, authUser, initPc, initLog, loginPc,
                   loginReturned, loginThrown, logoutPc, logoutFailed,
                   page, probe, upd, tm, dash,
                   list, files, nav, form>>

\* verifyEmailApi rejected: setError(errorMessage); throw err; finally
verifyEmailFailed ==
    /\ reg.verifyPc = "await"
    /\ \E err \in VerifyFailures :
          /\ error' = ErrorMessage(err, "Email verification failed")
          /\ reg' = [reg EXCEPT !.verifyPc = "rejected", !.verifyThrown = err]
    /\ isLoading' = FALSE
    /\ net' = net \ {"verifyEmail"}
    /\ UNCHANGED <<user, flags, token, authUser, initPc, initLog, loginPc,
                   loginReturned, loginThrown, logoutPc, logoutFailed,
                   page, probe, upd, tm, dash,
                   list, files, nav, form>>

----------------------------------------------------------------------------
(* updateUser applied to a given User and cached profile *)

IdleUpd == [stage |-> "none", prev |-> NULL, cache |-> NoEntry,
            partial |-> [active |-> FALSE], next |-> NULL,
            cacheAfter |-> NoEntry]

\* updateUser(partial) runs on the User and cache at hand
probeUpdateUser ==
    /\ upd.stage = "input"
    /\ upd' = [upd EXCEPT !.stage = "applied",
                          !.next = updateUserNext(upd.prev, upd.partial),
                          !.cacheAfter = updateUserCache(upd.prev, upd.cache,
                                                         upd.partial)]
    /\ UNCHANGED <<authVars, page, probe, reg, tm, dash,
                   list, files, nav, form>>

\* a further updateUser call is made on the result of the previous one
probeUpdateUserAgain ==
    /\ upd.stage = "applied"
    /\ \E partial \in Partials :
          upd' = [upd EXCEPT !.stage = "input", !.prev = upd.next,
                             !.cache = upd.cacheAfter, !.partial = partial]
    /\ UNCHANGED <<authVars, page, probe, reg, tm, dash,
                   list, files, nav, form>>


----------------------------------------------------------------------------
(* The token manager and the API wrappers that read it *)

\* tokens handed to tokenManager.set
Tokens == {StoredToken, LoginToken}

NoWrite == [kind |-> "none", token |-> NoToken]

\* a call without a request body
NoBody == [undefined |-> TRUE]

\* event ids and UpdateEventRequest values handed to the event wrappers
EventIds == {"e1", "e2"}
UpdateBodies == {[status |-> "cancelled"], [title |-> "t"],
                 [status |-> "cancelled", title |-> "t"]}

NoCall == [eventId |-> "none", eventData |-> NoBody]

\* updateEvent: apiPut(`/api/v1/admin/events/${eventId}`, eventData, header)
updateEventRequests(eventId, eventData) ==
    <<[method |-> "PUT", path |-> <<"events", eventId>>, body |-> eventData,
       header |-> tokenManagerGetAuthHeader]>>

\* a decline sent to an endpoint of its own, like approve and publish
declineEventDedicated(eventId) ==
    <<[method |-> "POST", path |-> <<"events", eventId, "decline">>,
       body |-> NoBody, header |-> tokenManagerGetAuthHeader]>>

\* declineEvent: await updateEvent(eventId, { status: "cancelled" })
declineEventRequests(eventId) ==
    updateEventRequests(eventId, [status |-> "cancelled"])

IdleTm == [calls |-> 0, op |-> "none", prevOp |-> "none",
           call |-> NoCall, requests |-> <<>>, got |-> NoToken, header |-> NoHeader,
           lastWrite |-> NoWrite, sent |-> NoHeader]

\* tokenManager.set(t)
tmSet ==
    /\ tm.calls < MaxCalls
    /\ \E t \in Tokens :
          /\ token' = tokenManagerSet(t)
          /\ tm' = [tm EXCEPT !.calls = @ + 1, !.prevOp = tm.op, !.op = "set",
                              !.lastWrite = [kind |-> "set", token |-> t]]
    /\ UNCHANGED <<user, isLoading, error, authUser, initPc, initLog, net,
                   loginPc, loginReturned, loginThrown, logoutPc, logoutFailed,
                   flags, page, probe, reg, upd, dash,
                   list, files, nav, form>>

\* tokenManager.get()
tmGet ==
    /\ tm.calls < MaxCalls
    /\ tm' = [tm EXCEPT !.calls = @ + 1, !.prevOp = tm.op, !.op = "get", !.got = tokenManagerGet]
    /\ UNCHANGED <<authVars, page, probe, reg, upd, dash,
                   list, files, nav, form>>

\* tokenManager.remove()
tmRemove ==
    /\ tm.calls < MaxCalls
    /\ token' = tokenManagerRemove
    /\ tm' = [tm EXCEPT !.calls = @ + 1, !.prevOp = tm.op, !.op = "remove",
                        !.lastWrite = [kind |-> "remove", token |-> NoToken]]
    /\ UNCHANGED <<user, isLoading, error, authUser, initPc, initLog, net,
                   loginPc, loginReturned, loginThrown, logoutPc, logoutFailed,
                   flags, page, probe, reg, upd, dash,
                   list, files, nav, form>>

\* tokenManager.getAuthHeader()
tmGetAuthHeader ==
    /\ tm.calls < MaxCalls
    /\ tm' = [tm EXCEPT !.calls = @ + 1, !.prevOp = tm.op, !.op = "getAuthHeader",
                        !.header = tokenManagerGetAuthHeader]
    /\ UNCHANGED <<authVars, page, probe, reg, upd, dash,
                   list, files, nav, form>>

\* a wrapper that sends the header computed by an earlier getAuthHeader()
getUserStatsStaleHeader ==
    /\ tm.calls < MaxCalls
    /\ tm' = [tm EXCEPT !.calls = @ + 1, !.prevOp = tm.op, !.op = "getUserStats",
                        !.sent = tm.header]
    /\ UNCHANGED <<authVars, page, probe, reg, upd, dash,
                   list, files, nav, form>>

\* apiGet("/api/v1/admin/users/stats", tokenManager.getAuthHeader())
getUserStats ==
    /\ tm.calls < MaxCalls
    /\ tm' = [tm EXCEPT !.calls = @ + 1, !.prevOp = tm.op, !.op = "getUserStats",
                        !.sent = tokenManagerGetAuthHeader]
    /\ UNCHANGED <<authVars, page, probe, reg, upd, dash,
                   list, files, nav, form>>

\* updateEvent(eventId, eventData)
updateEvent ==
    /\ tm.calls < MaxCalls
    /\ \E eventId \in EventIds, eventData \in UpdateBodies :
          tm' = [tm EXCEPT !.calls = @ + 1, !.prevOp = tm.op,
                           !.op = "updateEvent",
                           !.call = [eventId |-> eventId,
                                     eventData |-> eventData],
                           !.requests = updateEventRequests(eventId, eventData)]
    /\ UNCHANGED <<authVars, page, probe, reg, upd, dash,
                   list, files, nav, form>>

\* declineEvent(eventId)
declineEvent ==
    /\ tm.calls < MaxCalls
    /\ \E eventId \in EventIds :
          tm' = [tm EXCEPT !.calls = @ + 1, !.prevOp = tm.op,
                           !.op = "declineEvent",
                           !.call = [eventId |-> eventId, eventData |-> NoBody],
                           !.requests = declineEventRequests(eventId)]
    /\ UNCHANGED <<authVars, page, probe, reg, upd, dash,
                   list, files, nav, form>>

\* apiGet("/api/v1/admin/events/stats", tokenManager.getAuthHeader())
getEventStats ==
    /\ tm.calls < MaxCalls
    /\ tm' = [tm EXCEPT !.calls = @ + 1, !.prevOp = tm.op, !.op = "getEventStats",
                        !.sent = tokenManagerGetAuthHeader]
    /\ UNCHANGED <<authVars, page, probe, reg, upd, dash,
                   list, files, nav, form>>

----------------------------------------------------------------------------
(* Summary screens: HomeDashboard.loadData and UsersPage.loadUsers *)

\* the state a load writes, one field per request it comes from
StatFields == {"getEventStats", "getUserStats", "getUsers"}

\* if (canViewEvents) promises.push(getEventStats());
\* if (canViewUsers) promises.push(getUserStats());
DashboardRequests(u) ==
    {r \in {"getEventStats"} :
        Granted(hasPermission(RolesOf(u), PERMISSIONS.VIEW_ALL_EVENTS))}
    \cup
    {r \in {"getUserStats"} :
        Granted(hasPermission(RolesOf(u), PERMISSIONS.MANAGE_USERS))}

\* Promise.all([getUsers({...}), getUserStats()])
UsersRequests == {"getUsers", "getUserStats"}

\* a screen as mounted: useState(true) for the loading flag, nothing loaded
FreshScreen(screen) ==
    [screen |-> screen, loading |-> TRUE, error |-> NoError,
     stats |-> [f \in StatFields |-> 0], loads |-> <<>>]

IdleDash == FreshScreen("dashboard")

NewLoad(reqs) ==
    [reqs |-> reqs, ok |-> {}, failed |-> {}, state |-> "waiting", errors |-> 0]

\* the code after await Promise.all(...): every field is set from load k
ApplyLoad(k) == [f \in StatFields |-> k]

\* the dashboard effect runs loadData: the permitted requests are issued
\* together; with none to issue, Promise.all([]) resolves at once
loadData ==
    /\ dash.screen = "dashboard"
    /\ Len(dash.loads) < MaxLoads
    /\ \E u \in {NULL} \cup BackendUsers :
          LET reqs == DashboardRequests(u)
              k == Len(dash.loads) + 1
          IN  IF reqs = {}
              THEN dash' = [dash EXCEPT
                              !.loads = Append(@, [NewLoad(reqs) EXCEPT
                                                     !.state = "applied"]),
                              !.stats = ApplyLoad(k),
                              !.loading = FALSE]
              ELSE dash' = [dash EXCEPT !.loads = Append(@, NewLoad(reqs))]
    /\ UNCHANGED <<authVars, page, probe, reg, upd, tm,
                   list, files, nav, form>>

\* the users list effect runs loadUsers: setLoading(true); setError(null);
\* both requests are issued together
loadUsers ==
    /\ dash.screen = "users"
    /\ Len(dash.loads) < MaxLoads
    /\ dash' = [dash EXCEPT !.loading = TRUE, !.error = NoError,
                            !.loads = Append(@, NewLoad(UsersRequests))]
    /\ UNCHANGED <<authVars, page, probe, reg, upd, tm,
                   list, files, nav, form>>

\* a response arrives and its result is written to the screen at once
requestFulfilledPartial ==
    /\ \E k \in 1..Len(dash.loads) :
          \E r \in dash.loads[k].reqs \ (dash.loads[k].ok \cup dash.loads[k].failed) :
             LET l == dash.loads[k]
                 done == l.state = "waiting" /\ l.ok \cup {r} = l.reqs
             IN  dash' = [dash EXCEPT
                            !.loads[k].ok = @ \cup {r},
                            !.loads[k].state = IF done THEN "applied" ELSE @,
                            !.stats = [@ EXCEPT ![r] = k],
                            !.loading = IF done THEN FALSE ELSE @]
    /\ UNCHANGED <<authVars, page, probe, reg, upd, tm,
                   list, files, nav, form>>

\* a response arrives; when it is the last one of a load still waiting,
\* Promise.all resolves: the results are applied, finally clears the flag
requestFulfilled ==
    /\ \E k \in 1..Len(dash.loads) :
          \E r \in dash.loads[k].reqs \ (dash.loads[k].ok \cup dash.loads[k].failed) :
             LET l == dash.loads[k]
                 done == l.state = "waiting" /\ l.ok \cup {r} = l.reqs
             IN  dash' = [dash EXCEPT
                            !.loads[k].ok = @ \cup {r},
                            !.loads[k].state = IF done THEN "applied" ELSE @,
                            !.stats = IF done THEN ApplyLoad(k) ELSE @,
                            !.loading = IF done THEN FALSE ELSE @]
    /\ UNCHANGED <<authVars, page, probe, reg, upd, tm,
                   list, files, nav, form>>

\* a request fails; when its load is still waiting, Promise.all rejects:
\* catch surfaces the error, finally clears the flag; a later failure of the
\* same load goes nowhere
requestRejected ==
    /\ \E k \in 1..Len(dash.loads) :
          \E r \in dash.loads[k].reqs \ (dash.loads[k].ok \cup dash.loads[k].failed) :
             \E err \in Failures :
                LET l == dash.loads[k]
                    first == l.state = "waiting"
                IN  dash' = [dash EXCEPT
                               !.loads[k].failed = @ \cup {r},
                               !.loads[k].state = IF first THEN "failed" ELSE @,
                               !.loads[k].errors = IF first THEN @ + 1 ELSE @,
                               !.error = IF first THEN err.message ELSE @,
                               !.loading = IF first THEN FALSE ELSE @]
    /\ UNCHANGED <<authVars, page, probe, reg, upd, tm,
                   list, files, nav, form>>

----------------------------------------------------------------------------
(* EventsPage and UsersPage: loadEvents / loadUsers, filters, pagination *)

ListScreens == {"events", "users"}

\* what the search box and the selects can hold
SearchTerms == {"", "x"}
StatusFilters == {"all", "pending"}
RoleFilters(screen) == IF screen = "users" THEN {"all", "admin"} ELSE {"all"}

\* the parameters a load is called with (the state its closure captured)
Query(l) ==
    [page |-> l.currentPage, search |-> l.searchTerm,
     status |-> l.statusFilter, role |-> l.roleFilter]

\* total_pages the backend reports: fewer pages the more the list is narrowed
Narrowings(q) ==
    (IF q.search # "" THEN 1 ELSE 0) + (IF q.status # "all" THEN 1 ELSE 0)
        + (IF q.role # "all" THEN 1 ELSE 0)

TotalPagesOf(q) == IF Narrowings(q) >= 2 THEN 1 ELSE 3 - Narrowings(q)

NoRows == [page |-> 0, search |-> "", status |-> "all", role |-> "all"]

\* useState<string | null>(null)
NoListError == "null"

\* the screen after its first render and the load its mount effect starts
FreshList(screen) ==
    LET l == [screen |-> screen, currentPage |-> 1, searchTerm |-> "",
              statusFilter |-> "all", roleFilter |-> "all", totalPages |-> 1,
              rows |-> NoRows, loading |-> TRUE, error |-> NoListError,
              inflight |-> {}, latest |-> NoRows, latestOutcome |-> "pending"]
    IN  [l EXCEPT !.inflight = {Query(l)}, !.latest = Query(l)]

IdleList == FreshList("events")

\* the effect on [currentPage, searchTerm, filters]: a changed dependency
\* calls the load, which sets loading, clears the error and sends the request
ListEffect(l) ==
    [l EXCEPT !.loading = TRUE, !.error = NoListError,
              !.inflight = @ \cup {Query(l)},
              !.latest = Query(l), !.latestOutcome = "pending"]

CanLoad == Cardinality(list.inflight) < MaxInFlight

\* the search box: setSearchTerm(e.target.value)
setSearchTerm ==
    /\ CanLoad
    /\ \E v \in SearchTerms \ {list.searchTerm} :
          list' = ListEffect([list EXCEPT !.searchTerm = v])
    /\ UNCHANGED <<authVars, page, probe, reg, upd, tm, dash, files, nav, form>>

\* the status select: setStatusFilter
setStatusFilter ==
    /\ CanLoad
    /\ \E v \in StatusFilters \ {list.statusFilter} :
          list' = ListEffect([list EXCEPT !.statusFilter = v])
    /\ UNCHANGED <<authVars, page, probe, reg, upd, tm, dash, files, nav, form>>

\* the role select of the users screen: setRoleFilter
setRoleFilter ==
    /\ CanLoad
    /\ \E v \in RoleFilters(list.screen) \ {list.roleFilter} :
          list' = ListEffect([list EXCEPT !.roleFilter = v])
    /\ UNCHANGED <<authVars, page, probe, reg, upd, tm, dash, files, nav, form>>

Max(a, b) == IF a >= b THEN a ELSE b
Min(a, b) == IF a <= b THEN a ELSE b

\* the page numbers the pagination bar offers: Previous and Next unless
\* disabled, and up to five numbered buttons
PageTargets(l) ==
    IF l.totalPages > 1
    THEN (IF l.currentPage = 1 THEN {} ELSE {Max(1, l.currentPage - 1)})
         \cup (IF l.currentPage = l.totalPages THEN {}
               ELSE {Min(l.totalPages, l.currentPage + 1)})
         \cup {Max(1, Min(l.totalPages - 4, l.currentPage - 2)) + i :
                  i \in 0..(Min(5, l.totalPages) - 1)}
    ELSE {}

\* a pagination click: setCurrentPage(target); the same page changes nothing
setCurrentPage ==
    /\ CanLoad
    /\ \E target \in PageTargets(list) \ {list.currentPage} :
          list' = ListEffect([list EXCEPT !.currentPage = target])
    /\ UNCHANGED <<authVars, page, probe, reg, upd, tm, dash, files, nav, form>>

\* a load's await resolves: setEvents / setUsers, setTotalPages, then finally
listResolved ==
    /\ \E q \in list.inflight :
          list' = [list EXCEPT
                     !.rows = q,
                     !.totalPages = TotalPagesOf(q),
                     !.loading = FALSE,
                     !.inflight = @ \ {q},
                     !.latestOutcome = IF q = list.latest THEN "resolved" ELSE @]
    /\ UNCHANGED <<authVars, page, probe, reg, upd, tm, dash, files, nav, form>>

\* a load's await rejects: setError, then finally
listRejected ==
    /\ \E q \in list.inflight :
          list' = [list EXCEPT
                     !.error = "Request failed",
                     !.loading = FALSE,
                     !.inflight = @ \ {q},
                     !.latestOutcome = IF q = list.latest THEN "rejected" ELSE @]
    /\ UNCHANGED <<authVars, page, probe, reg, upd, tm, dash, files, nav, form>>

----------------------------------------------------------------------------
(* FileUpload: handleFileSelect, handleDrop, removeFile *)

\* strings are sequences of characters; "i" stands for "image", "a" for
\* "application", "p", "j" and "d" for the subtypes png, jpeg and pdf

\* the accept prop: "image/*" (the default, and what every caller passes)
\* and "*"
AcceptValues == {<<"i", "/", "*">>, <<"*">>}

MB == 1024 * 1024

\* files offered by the browser: File.size in bytes, File.type (empty when
\* the browser does not know the type)
FilePool ==
    {[name |-> "small.png", size |-> 1, type |-> <<"i", "/", "p">>],
     [name |-> "limit.jpg", size |-> 10 * MB, type |-> <<"i", "/", "j">>],
     [name |-> "over.png", size |-> 10 * MB + 1, type |-> <<"i", "/", "p">>],
     [name |-> "doc.pdf", size |-> 1, type |-> <<"a", "/", "d">>],
     [name |-> "unknown", size |-> MB, type |-> <<>>]}

\* accept.replace(/\*/g, ".*") read as a regular expression: one token per
\* character, each * becomes "any character, any number of times"
RegexOf(accept) ==
    [i \in 1..Len(accept) |->
        IF accept[i] = "*" THEN [any |-> TRUE, star |-> TRUE, c |-> "."]
        ELSE [any |-> FALSE, star |-> FALSE, c |-> accept[i]]]

TokenMatches(tok, c) == tok.any \/ tok.c = c

\* the tokens from i on match str from position j on (a prefix of the rest)
RECURSIVE MatchHere(_, _, _, _)
MatchHere(pat, i, str, j) ==
    IF i > Len(pat) THEN TRUE
    ELSE IF pat[i].star
         THEN \E k \in j..(Len(str) + 1) :
                 /\ \A n \in j..(k - 1) : TokenMatches(pat[i], str[n])
                 /\ MatchHere(pat, i + 1, str, k)
         ELSE /\ j <= Len(str)
              /\ TokenMatches(pat[i], str[j])
              /\ MatchHere(pat, i + 1, str, j + 1)

\* String.prototype.match(pattern): a match anywhere in the string
StringMatch(str, pat) == \E j \in 1..(Len(str) + 1) : MatchHere(pat, 1, str, j)

\* the two checks of the forEach callback
PassesChecks(file, accept, maxSize) ==
    /\ ~(file.size > maxSize * 1024 * 1024)
    /\ ~(accept # <<"*">> /\ ~StringMatch(file.type, RegexOf(accept)))

\* validFiles: the selected files that pass, in order
RECURSIVE ValidFiles(_, _, _)
ValidFiles(fileArray, accept, maxSize) ==
    IF fileArray = <<>> THEN <<>>
    ELSE LET rest == ValidFiles(Tail(fileArray), accept, maxSize)
         IN  IF PassesChecks(Head(fileArray), accept, maxSize)
             THEN <<Head(fileArray)>> \o rest
             ELSE rest

\* validFiles.slice(0, 1)
Slice01(arr) == IF Len(arr) = 0 THEN <<>> ELSE <<arr[1]>>

\* a selection that keeps every file that passes, also in single mode
handleFileSelectKeepAll(props, selectedFiles) ==
    props.files \o ValidFiles(selectedFiles, props.accept, props.maxSize)

\* handleFileSelect: the list handed to onFilesChange
handleFileSelect(props, selectedFiles) ==
    LET validFiles == ValidFiles(selectedFiles, props.accept, props.maxSize)
    IN  IF props.multiple THEN props.files \o validFiles
        ELSE Slice01(validFiles)

\* files.filter((_, i) => i !== index), index counted from 1 here
removeFileResult(arr, index) ==
    [i \in 1..(Len(arr) - (IF index \in 1..Len(arr) THEN 1 ELSE 0)) |->
        IF i < index THEN arr[i] ELSE arr[i + 1]]

Selections == SeqsUpTo(FilePool, MaxSelect)

NoOp == [op |-> "none", selected |-> <<>>, index |-> 0, before |-> <<>>,
         called |-> FALSE]

\* the component as mounted with its props; files is the list its parent
\* holds and sets from onFilesChange
FreshUpload(accept, multiple, maxSize, disabled) ==
    [accept |-> accept, multiple |-> multiple, maxSize |-> maxSize,
     disabled |-> disabled, files |-> <<>>, dragActive |-> FALSE,
     last |-> NoOp]

IdleFiles == FreshUpload(<<"i", "/", "*">>, FALSE, 10, FALSE)

\* the hidden input changes: handleFileSelect(e.target.files)
inputChange ==
    /\ ~files.disabled
    /\ \E selectedFiles \in Selections :
          /\ Len(files.files) + Len(selectedFiles) <= MaxFiles
          /\ files' = [files EXCEPT
                         !.files = handleFileSelect(files, selectedFiles),
                         !.last = [op |-> "select", selected |-> selectedFiles,
                                   index |-> 0, before |-> files.files,
                                   called |-> TRUE]]
    /\ UNCHANGED <<authVars, page, probe, reg, upd, tm, dash, list, nav, form>>

\* handleDrag: dragenter and dragover highlight the card, dragleave ends it
handleDrag ==
    /\ \E type \in {"dragenter", "dragover", "dragleave"} :
          files' = [files EXCEPT
                      !.dragActive = IF type = "dragleave" THEN FALSE ELSE TRUE,
                      !.last = NoOp]
    /\ UNCHANGED <<authVars, page, probe, reg, upd, tm, dash, list, nav, form>>

\* handleDrop: setDragActive(false); if (disabled) return;
\* handleFileSelect(e.dataTransfer.files)
handleDrop ==
    /\ \E selectedFiles \in Selections :
          /\ Len(files.files) + Len(selectedFiles) <= MaxFiles
          /\ files' = [files EXCEPT
                         !.dragActive = FALSE,
                         !.files = IF files.disabled THEN @
                                   ELSE handleFileSelect(files, selectedFiles),
                         !.last = [op |-> "drop", selected |-> selectedFiles,
                                   index |-> 0, before |-> files.files,
                                   called |-> ~files.disabled]]
    /\ UNCHANGED <<authVars, page, probe, reg, upd, tm, dash, list, nav, form>>

\* the remove button of the file at index
removeFile ==
    /\ \E index \in 1..Len(files.files) :
          files' = [files EXCEPT
                      !.files = removeFileResult(files.files, index),
                      !.last = [op |-> "remove", selected |-> <<>>,
                                index |-> index, before |-> files.files,
                                called |-> TRUE]]
    /\ UNCHANGED <<authVars, page, probe, reg, upd, tm, dash, list, nav, form>>

\* the parent sets the disabled prop (it is saving, or it has finished)
setDisabled ==
    /\ files' = [files EXCEPT !.disabled = ~@, !.last = NoOp]
    /\ UNCHANGED <<authVars, page, probe, reg, upd, tm, dash, list, nav, form>>

----------------------------------------------------------------------------
(* DashSidebar: the navigation items it renders *)

\* data.navMain, data.navContents (with the urls of their sub-items) and
\* data.navUtils
NavMain == <<[title |-> "Dashboard", url |-> "/", items |-> {}]>>
NavContents ==
    <<[title |-> "Events", url |-> "/events",
       items |-> {"/events", "/events/create", "/events/categories"}],
      [title |-> "Users", url |-> "/users", items |-> {"/users", "/users/new"}],
      [title |-> "Feedbacks", url |-> "/feedbacks", items |-> {"/feedbacks"}]>>
NavUtils == <<[title |-> "Settings", url |-> "/settings", items |-> {}]>>

\* values of usePathname()
Pathnames == {"/", "/events/create", "/events/e1"}

\* pathname.startsWith(url)
StartsWith(pathname, url) ==
    \/ pathname = url
    \/ url = "/"
    \/ url = "/events" /\ pathname \in {"/events/create", "/events/e1"}

\* isActive(url) and isActive(url, subItems)
isActive(pathname, item, withSubItems) ==
    IF pathname = item.url THEN TRUE
    ELSE IF withSubItems THEN pathname \in item.items
    ELSE item.url # "/" /\ StartsWith(pathname, item.url)

\* the permission the filter callback asks for an item
NavPermission(title) ==
    CASE title = "Events" -> PERMISSIONS.VIEW_ALL_EVENTS
      [] title = "Users" -> PERMISSIONS.MANAGE_USERS
      [] title = "Feedbacks" -> PERMISSIONS.VIEW_ALL_EVENTS
      [] OTHER -> PERMISSIONS.SYSTEM_SETTINGS

\* the titles of items (a sequence) that pass the filter
Filtered(items, userRoles) ==
    {items[i].title : i \in {j \in 1..Len(items) :
        Granted(hasPermission(userRoles, NavPermission(items[j].title)))}}

Titles(items) == {items[i].title : i \in 1..Len(items)}

NoNav == [threw |-> FALSE, navMain |-> {}, navContents |-> {}, navUtils |-> {},
          active |-> {}]

\* the user as the sidebar sees it: absent, without a roles field, or with
\* a list of roles
NavUsers ==
    {[present |-> FALSE, hasRoles |-> FALSE, roles |-> <<>>],
     [present |-> TRUE, hasRoles |-> FALSE, roles |-> <<>>]}
    \cup {[present |-> TRUE, hasRoles |-> TRUE, roles |-> R] : R \in RoleLists}

\* getFilteredNavItems(); a hasPermission call that throws ends the render
getFilteredNavItems(u, pathname) ==
    IF ~u.present \/ ~u.hasRoles THEN NoNav
    ELSE IF \E i \in 1..Len(NavContents) :
               hasPermission(u.roles, NavPermission(NavContents[i].title)).threw
            \/ hasPermission(u.roles, NavPermission("Settings")).threw
         THEN [NoNav EXCEPT !.threw = TRUE]
         ELSE LET contents == Filtered(NavContents, u.roles)
                  utils == Filtered(NavUtils, u.roles)
              IN  [threw |-> FALSE,
                   navMain |-> Titles(NavMain),
                   navContents |-> contents,
                   navUtils |-> utils,
                   active |->
                      {NavMain[i].title : i \in {j \in 1..Len(NavMain) :
                          isActive(pathname, NavMain[j], FALSE)}}
                      \cup {NavContents[i].title : i \in
                          {j \in 1..Len(NavContents) :
                             /\ NavContents[j].title \in contents
                             /\ isActive(pathname, NavContents[j], TRUE)}}
                      \cup {NavUtils[i].title : i \in {j \in 1..Len(NavUtils) :
                             /\ NavUtils[j].title \in utils
                             /\ isActive(pathname, NavUtils[j], FALSE)}}]

IdleNav == [stage |-> "none",
            u |-> [present |-> FALSE, hasRoles |-> FALSE, roles |-> <<>>],
            pathname |-> "/", res |-> NoNav]

\* the sidebar renders
renderSidebar ==
    /\ nav.stage = "input"
    /\ nav' = [nav EXCEPT !.stage = "rendered",
                          !.res = getFilteredNavItems(nav.u, nav.pathname)]
    /\ UNCHANGED <<authVars, page, probe, reg, upd, tm, dash, list, files, form>>

\* the user or the path changes and the sidebar is due to render again
sidebarPropsChange ==
    /\ nav.stage = "rendered"
    /\ \E u \in NavUsers, pathname \in Pathnames :
          /\ (u = nav.u) # (pathname = nav.pathname)
          /\ nav' = [nav EXCEPT !.stage = "input", !.u = u,
                                !.pathname = pathname]
    /\ UNCHANGED <<authVars, page, probe, reg, upd, tm, dash, list, files, form>>

----------------------------------------------------------------------------
(* CreateEventPage: handleInputChange, handleSubmit *)

\* text typed into title, description and venue, as character sequences:
\* empty, blanks only, text, text with blanks around it
TextValues == {<<>>, <<" ">>, <<"t">>, <<" ", "t", " ">>}

\* the date and time inputs: empty or a value ("d" a date, "h" a time)
DateValues == {<<>>, <<"d">>}
TimeValues == {<<>>, <<"h">>}

\* parseInt(e.target.value) || 0
NumberValues == -1..2

\* String.prototype.trim
RECURSIVE TrimStart(_)
TrimStart(str) ==
    IF str # <<>> /\ Head(str) = " " THEN TrimStart(Tail(str)) ELSE str

RECURSIVE TrimEnd(_)
TrimEnd(str) ==
    IF str # <<>> /\ str[Len(str)] = " "
    THEN TrimEnd(SubSeq(str, 1, Len(str) - 1))
    ELSE str

Trim(str) == TrimEnd(TrimStart(str))

\* !s for a string: only the empty string is falsy
Falsy(str) == str = <<>>

NoValidationError == "none"

\* the checks without the comparison of max_participants with capacity
ValidationErrorNoExceedCheck(formData) ==
    IF Falsy(Trim(formData.title)) THEN "Title is required"
    ELSE IF Falsy(Trim(formData.description)) THEN "Description is required"
    ELSE IF Falsy(formData.date) THEN "Date is required"
    ELSE IF Falsy(formData.time) THEN "Time is required"
    ELSE IF Falsy(Trim(formData.venue)) THEN "Venue is required"
    ELSE IF formData.capacity <= 0 THEN "Capacity must be greater than 0"
    ELSE IF formData.max_participants <= 0
         THEN "Max participants must be greater than 0"
    ELSE NoValidationError

\* the "Basic validation" of handleSubmit: the message of the first check
\* that throws
ValidationError(formData) ==
    IF Falsy(Trim(formData.title)) THEN "Title is required"
    ELSE IF Falsy(Trim(formData.description)) THEN "Description is required"
    ELSE IF Falsy(formData.date) THEN "Date is required"
    ELSE IF Falsy(formData.time) THEN "Time is required"
    ELSE IF Falsy(Trim(formData.venue)) THEN "Venue is required"
    ELSE IF formData.capacity <= 0 THEN "Capacity must be greater than 0"
    ELSE IF formData.max_participants <= 0
         THEN "Max participants must be greater than 0"
    ELSE IF formData.max_participants > formData.capacity
         THEN "Max participants cannot exceed capacity"
    ELSE NoValidationError

\* useState<CreateEventFormData>({...})
EmptyFormData ==
    [title |-> <<>>, description |-> <<>>, date |-> <<>>, time |-> <<>>,
     venue |-> <<>>, capacity |-> 0, max_participants |-> 0]

NoSubmit == [op |-> "none", formData |-> EmptyFormData, sent |-> FALSE]

NoToast == [kind |-> "none", message |-> "none"]

\* what createEventWithFiles rejects with: an Error, or something else
CreateFailures ==
    {[isError |-> TRUE, message |-> "Request failed"],
     [isError |-> FALSE, message |-> "none"]}

\* the create page as mounted
IdleForm ==
    [route |-> "/events/create", formData |-> EmptyFormData,
     loading |-> FALSE, awaiting |-> FALSE, toast |-> NoToast,
     last |-> NoSubmit]

FormFieldValues(field) ==
    CASE field \in {"title", "description", "venue"} -> TextValues
      [] field = "date" -> DateValues
      [] field = "time" -> TimeValues
      [] field \in {"capacity", "max_participants"} -> NumberValues

\* handleInputChange(field, value)
handleInputChange ==
    /\ form.route = "/events/create"
    /\ \E field \in DOMAIN EmptyFormData :
          \E value \in FormFieldValues(field) :
             form' = [form EXCEPT !.formData = [@ EXCEPT ![field] = value],
                                  !.last = NoSubmit]
    /\ UNCHANGED <<authVars, page, probe, reg, upd, tm, dash, list, files, nav>>

\* handleSubmit up to its await: a failed check throws, and catch and finally
\* run before the handler returns
handleSubmit ==
    /\ form.route = "/events/create"
    /\ ~form.loading
    /\ LET err == ValidationError(form.formData)
       IN  form' =
             IF err # NoValidationError
             THEN [form EXCEPT
                     !.loading = FALSE,
                     !.toast = [kind |-> "error", message |-> err],
                     !.last = [op |-> "submit", formData |-> form.formData,
                               sent |-> FALSE]]
             ELSE [form EXCEPT
                     !.loading = TRUE,
                     !.awaiting = TRUE,
                     !.last = [op |-> "submit", formData |-> form.formData,
                               sent |-> TRUE]]
    /\ UNCHANGED <<authVars, page, probe, reg, upd, tm, dash, list, files, nav>>

\* createEventWithFiles resolves: success toast, router.push("/events")
createEventResolved ==
    /\ form.awaiting
    /\ form' = [form EXCEPT
                  !.route = "/events",
                  !.loading = FALSE,
                  !.awaiting = FALSE,
                  !.toast = [kind |-> "success",
                             message |-> "Event created successfully!"],
                  !.last = [@ EXCEPT !.op = "created"]]
    /\ UNCHANGED <<authVars, page, probe, reg, upd, tm, dash, list, files, nav>>

\* createEventWithFiles rejects: error toast, the page stays
createEventRejected ==
    /\ form.awaiting
    /\ \E err \in CreateFailures :
          form' = [form EXCEPT
                     !.loading = FALSE,
                     !.awaiting = FALSE,
                     !.toast = [kind |-> "error",
                                message |-> IF err.isError THEN err.message
                                            ELSE "Failed to create event"],
                     !.last = [@ EXCEPT !.op = "failed"]]
    /\ UNCHANGED <<authVars, page, probe, reg, upd, tm, dash, list, files, nav>>

\* the user opens the create page again: a fresh form
openCreatePage ==
    /\ form.route = "/events"
    /\ form' = IdleForm
    /\ UNCHANGED <<authVars, page, probe, reg, upd, tm, dash, list, files, nav>>

----------------------------------------------------------------------------
(* Specifications *)

InitAuth ==
    /\ user = NULL
    /\ isLoading = TRUE
    /\ error = NoError
    /\ initPc = "start"
    /\ initLog = <<>>
    /\ net = {}
    /\ loginPc = "idle"
    /\ loginReturned = NULL
    /\ loginThrown = NoThrow
    /\ logoutPc = "idle"
    /\ logoutFailed = FALSE
    /\ flags = PageFlags(NULL)

IdlePage == FreshPage("eventDetails", "pending", FALSE)

\* the provider is constructed; client storage holds what an earlier session
\* left in it
Init ==
    /\ InitAuth
    /\ token \in {NoToken, StoredToken}
    /\ authUser \in {NoEntry, CorruptEntry} \cup {Stringify(u) : u \in BackendUsers}
    /\ page = IdlePage
    /\ probe = NoProbe
    /\ reg = IdleReg
    /\ upd = IdleUpd
    /\ tm = IdleTm
    /\ dash = IdleDash
    /\ list = IdleList
    /\ files = IdleFiles
    /\ nav = IdleNav
    /\ form = IdleForm

Next ==
    \/ checkAuthNoToken
    \/ checkAuthBegin
    \/ checkAuthValid
    \/ checkAuthInvalid
    \/ checkAuthValidateThrew
    \/ checkAuthRefreshed
    \/ checkAuthRefreshNoToken
    \/ checkAuthRefreshThrew
    \/ checkAuthRevalid
    \/ checkAuthRevalidFailed
    \/ loginStart
    \/ loginSucceeded
    \/ loginFailed
    \/ logoutStart
    \/ logoutSucceeded
    \/ logoutRejected
    \/ updateUser
    \/ clearError

Spec == Init /\ [][Next]_vars

\* The pages of a session whose initialization found no token: the user
\* logs in and out and has its roles updated while pages issue mutations.
InitUi ==
    /\ InitAuth
    /\ token = NoToken
    /\ authUser = NoEntry
    /\ page = IdlePage
    /\ probe = NoProbe
    /\ reg = IdleReg
    /\ upd = IdleUpd
    /\ tm = IdleTm
    /\ dash = IdleDash
    /\ list = IdleList
    /\ files = IdleFiles
    /\ nav = IdleNav
    /\ form = IdleForm

NextUi ==
    \/ checkAuthNoToken
    \/ loginStart
    \/ loginSucceeded
    \/ logoutStart
    \/ logoutSucceeded
    \/ logoutRejected
    \/ updateUser
    \/ navigate
    \/ handleApproveEvent
    \/ handleDeclineEvent
    \/ handlePublishToggle
    \/ handleDeleteEvent
    \/ createEventSubmit
    \/ editEventSubmit
    \/ userDetailsStatusToggle
    \/ actionSucceeded
    \/ actionFailed
    \/ usersPageStatusToggle
    \/ usersPageStatusSettled

SpecUi == InitUi /\ [][NextUi]_vars

\* hasRole, hasPermission and the page flags applied to every drawn input
InitPerm ==
    /\ InitAuth
    /\ token = NoToken
    /\ authUser = NoEntry
    /\ page = IdlePage
    /\ probe \in [u : ProbeUsers, perm : ProbePermissions, role : RoleLabels,
                  stage : {"input"},
                  permRes : {[threw |-> FALSE, value |-> FALSE]},
                  roleRes : {FALSE}, flagRes : {{}}]
    /\ reg = IdleReg
    /\ upd = IdleUpd
    /\ tm = IdleTm
    /\ dash = IdleDash
    /\ list = IdleList
    /\ files = IdleFiles
    /\ nav = IdleNav
    /\ form = IdleForm

NextPerm ==
    \/ probeHasRole
    \/ probeHasPermission
    \/ probePageFlags

SpecPerm == InitPerm /\ [][NextPerm]_vars

\* Registration in a session whose initialization found no token: signup
\* and verifyEmail calls, interleaved with logout calls.
InitReg ==
    /\ InitAuth
    /\ token = NoToken
    /\ authUser = NoEntry
    /\ page = IdlePage
    /\ probe = NoProbe
    /\ reg = IdleReg
    /\ upd = IdleUpd
    /\ tm = IdleTm
    /\ dash = IdleDash
    /\ list = IdleList
    /\ files = IdleFiles
    /\ nav = IdleNav
    /\ form = IdleForm

NextReg ==
    \/ checkAuthNoToken
    \/ signupStart
    \/ signupSucceeded
    \/ signupFailed
    \/ verifyEmailStart
    \/ verifyEmailSucceeded
    \/ verifyEmailFailed
    \/ logoutStart
    \/ logoutSucceeded
    \/ logoutRejected
    \/ clearError

SpecReg == InitReg /\ [][NextReg]_vars

\* The four asynchronous operations of the context, any number of them in
\* flight at once, in a session whose initialization found no token.
NextOps ==
    \/ checkAuthNoToken
    \/ signupStart
    \/ signupSucceeded
    \/ signupFailed
    \/ verifyEmailStart
    \/ verifyEmailSucceeded
    \/ verifyEmailFailed
    \/ loginStart
    \/ loginSucceeded
    \/ loginFailed
    \/ logoutStart
    \/ logoutSucceeded
    \/ logoutRejected

SpecOps == InitReg /\ [][NextOps]_vars

\* The events and users list screens after mounting
InitList ==
    /\ InitAuth
    /\ token = NoToken
    /\ authUser = NoEntry
    /\ page = IdlePage
    /\ probe = NoProbe
    /\ reg = IdleReg
    /\ upd = IdleUpd
    /\ tm = IdleTm
    /\ dash = IdleDash
    /\ list \in {FreshList(screen) : screen \in ListScreens}
    /\ files = IdleFiles
    /\ nav = IdleNav
    /\ form = IdleForm

NextList ==
    \/ setSearchTerm
    \/ setStatusFilter
    \/ setRoleFilter
    \/ setCurrentPage
    \/ listResolved
    \/ listRejected

SpecList == InitList /\ [][NextList]_vars

\* The create-event page, mounted with its empty form
InitForm ==
    /\ InitAuth
    /\ token = NoToken
    /\ authUser = NoEntry
    /\ page = IdlePage
    /\ probe = NoProbe
    /\ reg = IdleReg
    /\ upd = IdleUpd
    /\ tm = IdleTm
    /\ dash = IdleDash
    /\ list = IdleList
    /\ files = IdleFiles
    /\ nav = IdleNav
    /\ form = IdleForm

NextForm ==
    \/ handleInputChange
    \/ handleSubmit
    \/ createEventResolved
    \/ createEventRejected
    \/ openCreatePage

SpecForm == InitForm /\ [][NextForm]_vars

\* FileUpload mounted with each combination of props
InitFiles ==
    /\ InitAuth
    /\ token = NoToken
    /\ authUser = NoEntry
    /\ page = IdlePage
    /\ probe = NoProbe
    /\ reg = IdleReg
    /\ upd = IdleUpd
    /\ tm = IdleTm
    /\ dash = IdleDash
    /\ list = IdleList
    /\ files \in {FreshUpload(accept, multiple, maxSize, FALSE) :
                     accept \in AcceptValues, multiple \in BOOLEAN,
                     maxSize \in {1, 10}}
    /\ nav = IdleNav
    /\ form = IdleForm

NextFiles ==
    \/ inputChange
    \/ handleDrag
    \/ handleDrop
    \/ removeFile
    \/ setDisabled

SpecFiles == InitFiles /\ [][NextFiles]_vars

\* The sidebar rendered for every user and path
InitNav ==
    /\ InitAuth
    /\ token = NoToken
    /\ authUser = NoEntry
    /\ page = IdlePage
    /\ probe = NoProbe
    /\ reg = IdleReg
    /\ upd = IdleUpd
    /\ tm = IdleTm
    /\ dash = IdleDash
    /\ list = IdleList
    /\ files = IdleFiles
    /\ nav \in [stage : {"input"}, u : NavUsers, pathname : Pathnames,
                res : {NoNav}]
    /\ form = IdleForm

NextNav ==
    \/ renderSidebar
    \/ sidebarPropsChange

SpecNav == InitNav /\ [][NextNav]_vars

\* updateUser on every User (absent or set) and every cached profile
InitUpd ==
    /\ InitAuth
    /\ token = NoToken
    /\ authUser = NoEntry
    /\ page = IdlePage
    /\ probe = NoProbe
    /\ reg = IdleReg
    /\ upd \in [stage : {"input"}, prev : {NULL} \cup BackendUsers,
                cache : {NoEntry, CorruptEntry}
                          \cup {Stringify(u) : u \in BackendUsers},
                partial : Partials, next : {NULL}, cacheAfter : {NoEntry}]
    /\ tm = IdleTm
    /\ dash = IdleDash
    /\ list = IdleList
    /\ files = IdleFiles
    /\ nav = IdleNav
    /\ form = IdleForm

NextUpd ==
    \/ probeUpdateUser
    \/ probeUpdateUserAgain

SpecUpd == InitUpd /\ [][NextUpd]_vars

\* The token manager on its own: any sequence of set, get, remove,
\* getAuthHeader and API wrapper calls, from an empty or a filled store.
InitTok ==
    /\ InitAuth
    /\ token \in {NoToken, StoredToken}
    /\ authUser = NoEntry
    /\ page = IdlePage
    /\ probe = NoProbe
    /\ reg = IdleReg
    /\ upd = IdleUpd
    /\ tm = IdleTm
    /\ dash = IdleDash
    /\ list = IdleList
    /\ files = IdleFiles
    /\ nav = IdleNav
    /\ form = IdleForm

NextTok ==
    \/ tmSet
    \/ tmGet
    \/ tmRemove
    \/ tmGetAuthHeader
    \/ getUserStats
    \/ getEventStats
    \/ updateEvent
    \/ declineEvent

SpecTok == InitTok /\ [][NextTok]_vars

\* A summary screen is mounted and starts loads whose requests settle in
\* any order.
InitDash ==
    /\ InitAuth
    /\ token = NoToken
    /\ authUser = NoEntry
    /\ page = IdlePage
    /\ probe = NoProbe
    /\ reg = IdleReg
    /\ upd = IdleUpd
    /\ tm = IdleTm
    /\ dash \in {FreshScreen("dashboard"), FreshScreen("users")}
    /\ list = IdleList
    /\ files = IdleFiles
    /\ nav = IdleNav
    /\ form = IdleForm

NextDash ==
    \/ loadData
    \/ loadUsers
    \/ requestFulfilled
    \/ requestRejected

SpecDash == InitDash /\ [][NextDash]_vars


----------------------------------------------------------------------------
(* Properties *)

\* number of occurrences of event e in a log
RECURSIVE Count(_, _)
Count(log, e) ==
    IF log = <<>> THEN 0
    ELSE (IF Head(log) = e THEN 1 ELSE 0) + Count(Tail(log), e)

Occurs(log, e) == \E i \in 1..Len(log) : log[i] = e

\* every occurrence of event b in the log comes after an occurrence of a
Precedes(log, a, b) ==
    \A i \in 1..Len(log) : log[i] = b => \E j \in 1..(i - 1) : log[j] = a

\* the checkAuth run takes its last step
InitFinishes == initPc # "done" /\ initPc' = "done"

\* C1: for every role list R and permission p, hasPermission(R, p) returns
\* true exactly when p is in the union of the table entries of the roles of
\* R that have an entry, and returns false otherwise.
C1_HasPermissionIffUnion ==
    probe.stage \in {"perm", "flags"} =>
        /\ ~probe.permRes.threw
        /\ probe.permRes.value <=>
               probe.perm \in PermissionUnion(RolesOf(probe.u))

\* C2: when logout finishes, whatever the backend call did, User is absent
\* and the stored token is cleared.
C2_LogoutAlwaysClears ==
    [][(logoutPc = "await" /\ logoutPc' = "done")
          => (user' = NULL /\ token' = NoToken)]_vars

\* a failure happened in the validate / refresh / re-validate chain
InitChainFailed(log) ==
    \/ Occurs(log, "validate.throw")
    \/ Occurs(log, "refresh.throw")
    \/ Occurs(log, "refresh.return") /\ ~Occurs(log, "validate2.issue")
    \/ Occurs(log, "validate2.null")
    \/ Occurs(log, "validate2.throw")

\* C3: when initialization finishes after a failure in the validate /
\* refresh / re-validate chain, the token is cleared and User is absent.
C3_InitFailureClearsAuth ==
    [][(InitFinishes /\ InitChainFailed(initLog'))
          => (user' = NULL /\ token' = NoToken)]_vars

\* the stored token failed its first validation: validateToken returned no
\* user, or threw
FirstValidationFailed(log) ==
    Occurs(log, "validate.null") \/ Occurs(log, "validate.throw")

C5_LoadingClearedExactlyOnce ==
    initPc = "done" => Count(initLog, "loading.false") = 1

\* C5 amended: the step that finishes initialization leaves the loading
\* flag false, and the run has then written false to it once, or twice when
\* a cached profile was hydrated (once after hydrating, once in finally).
C5_LoadingClearedOnceOrTwice ==
    [][InitFinishes =>
          /\ isLoading' = FALSE
          /\ Count(initLog', "loading.false") =
                 (IF Occurs(initLog', "hydrate") THEN 2 ELSE 1)]_vars

C5_Witness ==
    /\ initPc = "done"
    /\ Occurs(initLog, "hydrate")
    /\ Count(initLog, "loading.false") = 2
    /\ ~isLoading

\* C6: a login that fails leaves User as it was, stores the failure message
\* in the error slot and rethrows the error; a login call empties the error
\* slot when it starts, and when it succeeds it sets User to the returned
\* user and leaves the error slot alone.
C6_LoginFailureThenSuccess ==
    [][/\ (loginPc = "await" /\ loginPc' = "rejected") =>
             /\ user' = user
             /\ loginThrown' \in Failures
             /\ error' = ErrorMessage(loginThrown', "Login failed")
             /\ error' # NoError
       /\ (loginPc # "await" /\ loginPc' = "await") => error' = NoError
       /\ (loginPc = "await" /\ loginPc' = "resolved") =>
             /\ user' = loginReturned'
             /\ user' # NULL
             /\ error' = error]_vars

\* a login failed earlier and a later login succeeded
C6_Witness ==
    /\ loginPc = "resolved"
    /\ loginThrown \in Failures
    /\ error = NoError
    /\ user = loginReturned
    /\ user # NULL

\* C7: the permission flags a page shows are always those of the current
\* user's current roles, also right after updateUser changed the roles.
C7_FlagsFollowRoles ==
    \A p \in GatedPermissions :
        flags[p] <=> p \in PermissionUnion(RolesOf(user))

\* the Organizer account had Admin added by updateUser and the
\* Admin-only approve flag is now true
C7_Witness ==
    /\ user # NULL
    /\ user.id = 2
    /\ user.roles = <<ROLES.ORGANIZER, ROLES.ADMIN>>
    /\ authUser = Stringify(user)
    /\ flags[PERMISSIONS.APPROVE_EVENT]

\* the step issues a request for the mutation
IssueStep(kind) ==
    \/ /\ page.pending = "none"
       /\ page'.pending = kind
    \/ /\ kind = "user_status"
       /\ page'.toggles > page.toggles

\* C8: a page issues a backend mutation only in a state where the current
\* user's roles hold the permission the mutation requires.
C8_MutationsNeedPermission ==
    [][\A kind \in MutationKinds :
          IssueStep(kind) =>
              RequiredPermission(kind) \in PermissionUnion(RolesOf(user))]_vars

\* an Organizer, who may delete but not approve, has a delete in flight
C8_Witness ==
    /\ page.pending = "delete_event"
    /\ user # NULL
    /\ user.roles = <<ROLES.ORGANIZER>>

\* C9: at most one network call of initialization is in flight; the refresh
\* call is issued only after the first validation reported an invalid
\* token, the second validation only after the refresh call returned.
C9_InitCallsSequential ==
    /\ Cardinality(net \cap InitCalls) <= 1
    /\ Precedes(initLog, "validate.issue", "validate.null")
    /\ Precedes(initLog, "validate.null", "refresh.issue")
    /\ Precedes(initLog, "refresh.issue", "refresh.return")
    /\ Precedes(initLog, "refresh.return", "validate2.issue")
    /\ "init.refresh" \in net => Occurs(initLog, "validate.null")
    /\ "init.validate2" \in net => Occurs(initLog, "refresh.return")

C9_Witness == "init.validate2" \in net

\* C10: with an empty role list hasRole and hasPermission return false, and
\* every permission flag computed for an absent user is false.
C10_EmptyRolesGrantNothing ==
    RolesOf(probe.u) = <<>> =>
        /\ probe.stage \in {"role", "perm", "flags"} => ~probe.roleRes
        /\ probe.stage \in {"perm", "flags"} =>
               probe.permRes = [threw |-> FALSE, value |-> FALSE]
        /\ probe.stage = "flags" => probe.flagRes = {}

C10_Witness ==
    /\ probe.stage = "flags"
    /\ probe.u = NULL


\* the permissions an Organizer must not hold
AdminOnlyPermissions ==
    {PERMISSIONS.APPROVE_EVENT, PERMISSIONS.PUBLISH_EVENT,
     PERMISSIONS.MANAGE_USERS, PERMISSIONS.VIEW_USERS,
     PERMISSIONS.UPDATE_USER_ROLES, PERMISSIONS.ACTIVATE_DEACTIVATE_USERS,
     PERMISSIONS.SYSTEM_SETTINGS, PERMISSIONS.VIEW_ANALYTICS}

\* event, registration and certificate permissions
EventRegistrationCertificatePermissions ==
    {PERMISSIONS.CREATE_EVENT, PERMISSIONS.EDIT_EVENT, PERMISSIONS.DELETE_EVENT,
     PERMISSIONS.APPROVE_EVENT, PERMISSIONS.PUBLISH_EVENT,
     PERMISSIONS.VIEW_ALL_EVENTS, PERMISSIONS.MANAGE_REGISTRATIONS,
     PERMISSIONS.MARK_ATTENDANCE, PERMISSIONS.GENERATE_CERTIFICATES}

\* C11: a user whose only role is Admin is granted every defined permission;
\* one whose only role is Participant or Visitor is granted none; one whose
\* only role is Organizer is granted only event, registration and
\* certificate permissions and none of the Admin-only ones.
C11_StaticTable ==
    probe.stage \in {"perm", "flags"} =>
        LET R == RolesOf(probe.u)
            g == Granted(probe.permRes)
        IN  /\ (R = <<ROLES.ADMIN>> /\ probe.perm \in AllPermissions) => g
            /\ R \in {<<ROLES.PARTICIPANT>>, <<ROLES.VISITOR>>} => ~g
            /\ R = <<ROLES.ORGANIZER>> =>
                  /\ g => probe.perm \in EventRegistrationCertificatePermissions
                  /\ probe.perm \in AdminOnlyPermissions => ~g

\* approve_event was evaluated for an Organizer-only user and refused
C11_Witness ==
    /\ probe.stage = "perm"
    /\ RolesOf(probe.u) = <<ROLES.ORGANIZER>>
    /\ probe.perm = PERMISSIONS.APPROVE_EVENT
    /\ ~Granted(probe.permRes)


\* C12: the token entry and the cached profile are cleared together: when
\* logout completes neither remains, a step that clears the token leaves no
\* cached profile, and no step writes a cached profile while the token is
\* cleared.
C12_TokenAndProfileClearedTogether ==
    [][/\ (logoutPc = "await" /\ logoutPc' = "done")
             => (token' = NoToken /\ authUser' = NoEntry)
       /\ (token' = NoToken /\ (token # NoToken \/ authUser = NoEntry))
             => authUser' = NoEntry]_vars


\* C13: signup never changes User.  When signupUser resolves the call
\* returns the registration identifier; when it rejects the message (the
\* ApiError's message, else "Signup failed") is stored in the error slot and
\* the error is rethrown; in both cases, and when the call starts, User is
\* what it was.
C13_SignupKeepsUser ==
    [][/\ (reg.signupPc # "await" /\ reg'.signupPc = "await") => user' = user
       /\ (reg.signupPc = "await" /\ reg'.signupPc = "resolved")
             => /\ user' = user
                /\ reg'.signupReturned \in RegistrationIds
                /\ error' = error
       /\ (reg.signupPc = "await" /\ reg'.signupPc = "rejected")
             => /\ user' = user
                /\ reg'.signupThrown \in SignupFailures
                /\ error' = ErrorMessage(reg'.signupThrown, "Signup failed")
                /\ error' # NoError]_vars

\* a signup returned an identifier, a later one failed, and a User is set
C13_Witness ==
    /\ reg.signupPc = "rejected"
    /\ reg.signupReturned \in RegistrationIds
    /\ user # NULL
    /\ error = "Email already registered"

\* C14: when verifyEmailApi resolves, User becomes the user it returned;
\* when it rejects (invalid or expired code) the error is rethrown, its
\* message (the ApiError's message, else "Email verification failed") is
\* stored in the error slot and User is what it was.
C14_VerifyEmailSetsUser ==
    [][/\ (reg.verifyPc = "await" /\ reg'.verifyPc = "resolved")
             => /\ reg'.verifyReturned \in BackendUsers
                /\ user' = reg'.verifyReturned
       /\ (reg.verifyPc = "await" /\ reg'.verifyPc = "rejected")
             => /\ user' = user
                /\ reg'.verifyThrown \in VerifyFailures
                /\ error' = ErrorMessage(reg'.verifyThrown,
                                         "Email verification failed")
                /\ error' # NoError]_vars

\* a verification succeeded, a later one was refused, the User is still set
C14_Witness ==
    /\ reg.verifyPc = "rejected"
    /\ reg.verifyReturned # NULL
    /\ user = reg.verifyReturned
    /\ error = "Invalid or expired code"


C17_RemoveIdempotent ==
    [][/\ (tm'.calls = tm.calls + 1 /\ tm'.op = "remove")
             => /\ token' = NoToken
                /\ token = NoToken => token' = token
       /\ (tm'.calls = tm.calls + 1 /\ tm'.op = "get"
              /\ tm.lastWrite.kind = "remove")
             => tm'.got = NoToken]_vars

\* remove() was called twice in a row and the store is empty
C17_Witness ==
    /\ tm.prevOp = "remove"
    /\ tm.op = "remove"
    /\ token = NoToken

\* C18: getAuthHeader() leaves the stored token alone and yields no header
\* when none is stored, else the bearer header of the stored token; the
\* request of an API wrapper carries the header of the token stored when
\* the wrapper is called.
C18_HeaderOfStoredToken ==
    [][/\ (tm'.calls = tm.calls + 1 /\ tm'.op = "getAuthHeader")
             => /\ token' = token
                /\ token = NoToken => tm'.header = NoHeader
                /\ token # NoToken
                      => (tm'.header.kind = "bearer" /\ tm'.header.token = token)
       /\ (tm'.calls = tm.calls + 1
              /\ tm'.op \in {"getUserStats", "getEventStats"})
             => /\ token' = token
                /\ token = NoToken => tm'.sent = NoHeader
                /\ token # NoToken
                      => (tm'.sent.kind = "bearer" /\ tm'.sent.token = token)]_vars

\* a header was computed for one token, another token was stored, and the
\* user statistics request carried the header of the second
C18_Witness ==
    /\ tm.op = "getUserStats"
    /\ tm.header = [kind |-> "bearer", token |-> StoredToken]
    /\ token = LoginToken
    /\ tm.sent = [kind |-> "bearer", token |-> LoginToken]


\* load k of screen d is consistent: results of it are on the screen only
\* if all its requests succeeded, and it surfaced one error if a request of
\* it failed and none otherwise
LoadConsistent(d, k) ==
    LET l == d.loads[k]
    IN  /\ l.failed # {} <=> l.state = "failed"
        /\ l.errors = IF l.state = "failed" THEN 1 ELSE 0
        /\ (\E f \in StatFields : d.stats[f] = k)
              => (l.state = "applied" /\ l.ok = l.reqs /\ l.failed = {})
        /\ l.state = "applied" => l.ok = l.reqs

\* C19: a summary load issues its requests together and applies results
\* only once all of them succeeded: when a request of a load fails nothing
\* of that load is applied, then or later, one error is surfaced for the
\* load however many of its requests fail, and the loading flag is cleared.
C19_AllOrNothingLoad ==
    [][/\ \A k \in 1..Len(dash'.loads) : LoadConsistent(dash', k)
       /\ Len(dash'.loads) = Len(dash.loads) + 1
             => LET l == dash'.loads[Len(dash'.loads)]
                IN  /\ l.ok = {} /\ l.failed = {}
                    /\ dash.screen = "users" => l.reqs = UsersRequests
       /\ \A k \in 1..Len(dash.loads) :
             (dash.loads[k].state = "waiting" /\ dash'.loads[k].state = "failed")
                => /\ dash'.stats = dash.stats
                   /\ dash'.loading = FALSE
                   /\ dash'.error # NoError]_vars

\* an Admin's dashboard load: the event statistics arrived, the user
\* statistics failed, a further load is still waiting; nothing was applied,
\* one error is shown and the loading flag is cleared
C19_Witness ==
    /\ dash.screen = "dashboard"
    /\ Len(dash.loads) = 2
    /\ dash.loads[1].reqs = {"getEventStats", "getUserStats"}
    /\ dash.loads[1].ok = {"getEventStats"}
    /\ dash.loads[1].failed = {"getUserStats"}
    /\ dash.loads[1].errors = 1
    /\ dash.loads[2].state = "waiting"
    /\ dash.stats = [f \in StatFields |-> 0]
    /\ dash.loading = FALSE
    /\ dash.error # NoError


\* the actions of the event details page
EventActions ==
    {"approve_event", "decline_event", "publish_event", "delete_event"}

\* C20: when the API call of an event action of the details page (approve,
\* decline, publish or unpublish, delete) fails, the event held by the page
\* is what it was, an error message is shown and the action-in-progress
\* flag is false again.
C20_FailedActionKeepsEvent ==
    [][(/\ page.route = "eventDetails"
        /\ page.pending \in EventActions
        /\ page'.route = "eventDetails"
        /\ page'.pending = "none"
        /\ page'.outcome = "rejected")
          => /\ page.busy
             /\ page'.status = page.status
             /\ page'.is_published = page.is_published
             /\ page'.toast = "error"
             /\ ~page'.busy]_vars

\* an action failed on an approved, unpublished event: the event is still
\* approved and unpublished, the error toast is up, nothing is in progress
C20_Witness ==
    /\ page.route = "eventDetails"
    /\ page.outcome = "rejected"
    /\ page.toast = "error"
    /\ page.status = "approved"
    /\ ~page.is_published
    /\ ~page.busy
    /\ page.pending = "none"


\* the one request of a generic update of event id with body
\* { status: "cancelled" } and no other field, under the stored token
IsCancelUpdate(requests, id) ==
    /\ Len(requests) = 1
    /\ requests[1].method = "PUT"
    /\ requests[1].path = <<"events", id>>
    /\ DOMAIN requests[1].body = {"status"}
    /\ requests[1].body.status = "cancelled"
    /\ requests[1].header.token = token

\* C21: declineEvent(id) issues exactly the one request that
\* updateEvent(id, { status: "cancelled" }) issues, a PUT to the generic
\* event endpoint whose body is the status alone, and no decline request.
C21_DeclineIsCancelUpdate ==
    /\ tm.op = "declineEvent" => IsCancelUpdate(tm.requests, tm.call.eventId)
    /\ (tm.op = "updateEvent" /\ tm.call.eventData = [status |-> "cancelled"])
          => IsCancelUpdate(tm.requests, tm.call.eventId)

\* event e2 was declined while a token was stored
C21_Witness ==
    /\ tm.op = "declineEvent"
    /\ tm.call.eventId = "e2"
    /\ token = StoredToken
    /\ Len(tm.requests) = 1
    /\ tm.requests[1].body = [status |-> "cancelled"]


\* C22: when a login has succeeded while the validation of the
\* initialization was in flight, a later failure of that initialization
\* leaves the token stored by the login and the User set by it.  Stated
\* for the second validation: the refresh stored its own token, so the
\* login token in storage was stored while that validation was in flight.
C22_InitFailureKeepsLogin ==
    [][(/\ initPc = "validate2"
        /\ loginPc = "resolved"
        /\ token = LoginToken
        /\ user = loginReturned
        /\ initPc' = "done"
        /\ InitChainFailed(initLog'))
          => (token' = LoginToken /\ user' = user)]_vars


\* C23: once initialization has finished and no call is in flight, a User
\* that is set implies a token in storage.
C23_UserImpliesToken ==
    (initPc = "done" /\ net = {} /\ user # NULL) => token # NoToken


\* C30: the step in which the backend call of signup, verifyEmail, login or
\* logout returns or fails ends with the loading flag false, and with no
\* call left in flight after initialization the flag is false.
C30_OperationsClearLoading ==
    [][/\ (reg.signupPc = "await" /\ reg'.signupPc # "await") => ~isLoading'
       /\ (reg.verifyPc = "await" /\ reg'.verifyPc # "await") => ~isLoading'
       /\ (loginPc = "await" /\ loginPc' # "await") => ~isLoading'
       /\ (logoutPc = "await" /\ logoutPc' # "await") => ~isLoading'
       /\ (initPc' = "done" /\ net' = {}) => ~isLoading']_vars

\* a signup, a verification and a login were refused and the backend call
\* of a logout failed; nothing is in flight and the flag is false
C30_Witness ==
    /\ reg.signupPc = "rejected"
    /\ reg.verifyPc = "rejected"
    /\ loginPc = "rejected"
    /\ logoutPc = "done"
    /\ logoutFailed
    /\ net = {}
    /\ ~isLoading


\* a step of the mounted event details page: an action starts or settles
DetailsStep ==
    /\ page.route = "eventDetails"
    /\ page'.route = "eventDetails"
    /\ (page'.pending # "none" \/ page'.outcome # "none")
    /\ (page.pending = "none") # (page'.pending = "none")

\* C25: the event held by the details page changes status only from
\* pending to approved (approve succeeded) or from pending to cancelled
\* (decline succeeded); approve and decline start only on a pending event,
\* publish / unpublish only on an approved one; a publish that succeeded
\* flips is_published and keeps the status, and is_published changes on no
\* other occasion.
C25_EventStatusMoves ==
    [][DetailsStep =>
          /\ page'.status # page.status
                => \/ /\ page.status = "pending" /\ page'.status = "approved"
                      /\ page.pending = "approve_event"
                      /\ page'.outcome = "resolved"
                   \/ /\ page.status = "pending" /\ page'.status = "cancelled"
                      /\ page.pending = "decline_event"
                      /\ page'.outcome = "resolved"
          /\ page'.pending \in {"approve_event", "decline_event"}
                => page.status = "pending"
          /\ page'.pending = "publish_event" => page.status = "approved"
          /\ (page.pending = "publish_event" /\ page'.outcome = "resolved")
                => /\ page'.is_published = ~page.is_published
                   /\ page'.status = page.status
          /\ page'.is_published # page.is_published
                => /\ page.status = "approved"
                   /\ page.pending = "publish_event"
                   /\ page'.outcome = "resolved"]_vars

\* an approved event was published from the page
C25_Witness ==
    /\ page.route = "eventDetails"
    /\ page.status = "approved"
    /\ page.is_published
    /\ page.outcome = "resolved"
    /\ page.pending = "none"


\* C27: the sidebar rendered with no user, or with a user without roles,
\* has every group empty; rendered for any other user it shows Dashboard,
\* Events and Feedbacks exactly when the roles grant view_all_events, Users
\* exactly when they grant manage_users and Settings exactly when they
\* grant system_settings.
C27_SidebarFollowsPermissions ==
    nav.stage = "rendered" =>
        IF ~nav.u.present \/ ~nav.u.hasRoles
        THEN /\ nav.res.navMain = {}
             /\ nav.res.navContents = {}
             /\ nav.res.navUtils = {}
        ELSE LET P == PermissionUnion(nav.u.roles)
             IN  /\ ~nav.res.threw
                 /\ nav.res.navMain = {"Dashboard"}
                 /\ "Events" \in nav.res.navContents
                       <=> PERMISSIONS.VIEW_ALL_EVENTS \in P
                 /\ "Feedbacks" \in nav.res.navContents
                       <=> PERMISSIONS.VIEW_ALL_EVENTS \in P
                 /\ "Users" \in nav.res.navContents
                       <=> PERMISSIONS.MANAGE_USERS \in P
                 /\ "Settings" \in nav.res.navUtils
                       <=> PERMISSIONS.SYSTEM_SETTINGS \in P

\* what "of a type matching accept" means: "*" takes every type, "x/*" takes
\* the types that begin with "x/", anything else takes the equal type only
TypeMatchesAccept(type, accept) ==
    \/ accept = <<"*">>
    \/ /\ Len(accept) >= 1
       /\ accept[Len(accept)] = "*"
       /\ Len(type) >= Len(accept) - 1
       /\ \A n \in 1..(Len(accept) - 1) : type[n] = accept[n]
    \/ type = accept

FileAllowed(f) ==
    /\ f.size <= files.maxSize * MB
    /\ TypeMatchesAccept(f.type, files.accept)

NonBlank(str) == \E n \in 1..Len(str) : str[n] # " "

\* every check the form has to pass
FormPasses(fd) ==
    /\ NonBlank(fd.title)
    /\ NonBlank(fd.description)
    /\ NonBlank(fd.venue)
    /\ Len(fd.date) > 0
    /\ Len(fd.time) > 0
    /\ fd.capacity > 0
    /\ fd.max_participants > 0
    /\ fd.max_participants <= fd.capacity

\* C28: a submit sends the create-event request exactly when the form passes
\* every check (title, description and venue non-blank, date and time
\* non-empty, capacity > 0, 0 < max_participants <= capacity); when a check
\* fails an error is shown and the submitting flag is false again
C28_CreateValidation ==
    form.last.op = "submit" =>
        /\ form.last.sent <=> FormPasses(form.last.formData)
        /\ ~form.last.sent =>
              /\ form.toast.kind = "error"
              /\ ~form.loading
              /\ ~form.awaiting

\* a submit of a form that is complete except that max_participants exceeds
\* capacity was refused with the error shown
C28_Witness ==
    /\ form.last.op = "submit"
    /\ ~form.last.sent
    /\ NonBlank(form.last.formData.title)
    /\ NonBlank(form.last.formData.description)
    /\ NonBlank(form.last.formData.venue)
    /\ Len(form.last.formData.date) > 0
    /\ Len(form.last.formData.time) > 0
    /\ form.last.formData.capacity = 1
    /\ form.last.formData.max_participants = 2
    /\ form.toast = [kind |-> "error",
                     message |-> "Max participants cannot exceed capacity"]

\* C24: once every list request has completed and the most recently issued
\* one succeeded, the rows and the total-pages value shown are those of the
\* most recently issued request
C24_LatestRequestWins ==
    (list.inflight = {} /\ list.latestOutcome = "resolved") =>
        /\ list.rows = list.latest
        /\ list.totalPages = TotalPagesOf(list.latest)

\* C29: the current page number is within 1..totalPages
C29_PageInRange == list.currentPage \in 1..list.totalPages

====
